---- MODULE Spec2Model ----
(***************************************************************************)
(* zubridge: the Rust back ends of the state bridge.                       *)
(*                                                                         *)
(* The repository holds several independent programs built around the same *)
(* idea (a state value behind a mutex, a dispatch entry point, a           *)
(* state-update event).  Four of them are modelled here; Init chooses      *)
(* which one a behaviour runs (variable app):                              *)
(*   "core"    packages/tauri-backend-core: ZubridgeHandler over a         *)
(*             MutexStateManager<AppState> with example.rs' app_reducer    *)
(*   "plugin"  packages/tauri-plugin-zubridge: Zubridge::dispatch_action   *)
(*             over apps/tauri-example's AppStateManager                   *)
(*   "v1"      apps/tauri-v1-example: the __zubridge_dispatch_action       *)
(*             command over Arc<Mutex<CounterState>>, and its tray         *)
(*   "commands" packages/zubridge-tauri, zubridge-tauri-v1, zuri: the      *)
(*             get_state, set_state and dispatch commands, and the apps    *)
(*             under apps/tauri that poll the managed state for the tray   *)
(* Threads are the runtime's worker threads; each runs one call at a time, *)
(* one step per lock acquisition, guarded section or emit.                 *)
(***************************************************************************)
EXTENDS Integers, Sequences, FiniteSets, TLC

\* ------------------------------------------------------------------ bounds
\* number of worker threads that issue calls concurrently
NumThreads == 2
\* total number of calls issued in one behaviour
MaxCalls == 2
\* the number of calls issued in a behaviour in which one caller dispatches
\* one action after another while a second caller dispatches
MaxCallerCalls == 3

Threads == 1..NumThreads
\* value of a mutex holder field when nobody holds the mutex
NoThread == 0
\* try_state::<Arc<Mutex<dyn StateManager>>>() is None
NoManager == 0

\* ------------------------------------------------------ serde_json::Value
\* A JSON value is a record tagged by k.  An integer is hi * 2^32 + n with n
\* in the i32 range, so hi = 0 exactly for the integers that fit an i32 and
\* n is what `as i32` keeps of it.  JFloat is a non-integer number (1.5).
JNull == [k |-> "null"]
JBool(b) == [k |-> "bool", b |-> b]
JInt(n) == [k |-> "int", hi |-> 0, n |-> n]
JWide(hi, n) == [k |-> "int", hi |-> hi, n |-> n]
JFloat == [k |-> "float"]
JStr(s) == [k |-> "str", s |-> s]
\* a key that the object does not have
JAbsent == [k |-> "absent"]
\* the object {"counter": c, "theme": {"is_dark": d}}
JObj(c, d) == [k |-> "obj", counter |-> c, is_dark |-> d]
\* the same object with one more key, {"counter": c, "theme": {"is_dark": d},
\* "extra": 1}
JObjExtra(c, d) == [k |-> "obj", counter |-> c, is_dark |-> d, extra |-> JInt(1)]
\* the object {"counter": c}
JCounter(c) == [k |-> "obj", counter |-> c]

\* Option<JsonValue>: None, or Some(v) written as v itself.  serde reads a
\* JSON null for an Option field as None.
None == [k |-> "none"]

\* Value::as_i64: Some(n) for an integer that fits an i64 (every "int" here)
as_i64_is_some(v) == v.k = "int"
\* `value as i32` of the i64 that as_i64 returned: the low 32 bits
as_i32(v) == v.n
\* Value::as_bool
as_bool_is_some(v) == v.k = "bool"
\* Value::is_number
is_number(v) == v.k \in {"int", "float"}
\* serde_json::from_value::<i32>: Ok only for an integer in the i32 range
from_value_i32_ok(v) == v.k = "int" /\ v.hi = 0

\* i32: the counters are 32-bit signed integers
MaxI32 == 2147483647
MinI32 == -MaxI32 - 1
\* i32::wrapping_add(n, 1) and i32::wrapping_sub(n, 1): what `+= 1` and
\* `-= 1` compute in a build without overflow checks
wrapping_inc(n) == IF n = MaxI32 THEN MinI32 ELSE n + 1
wrapping_dec(n) == IF n = MinI32 THEN MaxI32 ELSE n - 1

\* -------------------------------------------------- results of operations
Ok(v) == [ok |-> TRUE, value |-> v, err |-> ""]
Err(e) == [ok |-> FALSE, value |-> JNull, err |-> e]
\* Result<(), String> = Ok(())
Unit == JNull

\* ============================================================ backend-core
\* example.rs: AppState { counter: i32, theme: ThemeState { is_dark } }
AppState(c, d) == [counter |-> c, theme |-> [is_dark |-> d]]
\* impl Default for AppState
AppStateDefault == AppState(0, TRUE)

\* serde_json::to_value(state) of the derived Serialize
to_value(s) == JObj(JInt(s.counter), JBool(s.theme.is_dark))
\* serde_json::from_value::<AppState>: the derived Deserialize wants both
\* fields, counter an i32 and theme.is_dark a bool
from_value_ok(v) ==
    /\ v.k = "obj"
    /\ from_value_i32_ok(v.counter)
    /\ v.is_dark.k = "bool"
from_value(v) == AppState(v.counter.n, v.is_dark.b)

\* ZubridgeAction { type, payload }
Action(t, p) == [type |-> t, payload |-> p]

\* The reducer's outcome: the Result it returns and the state it leaves in
\* the &mut AppState it was given.
Reduced(s, r) == [state |-> s, result |-> r]

\* app_reducer with the SET_COUNTER arm assigning before it has validated:
\* state.counter = payload.as_i64().unwrap_or(0) as i32, then the Err.
app_reducer_assign_first(state, action) ==
    LET ty == action.type
        p == action.payload
    IN  CASE ty = "INCREMENT_COUNTER" ->
               Reduced([state EXCEPT !.counter = wrapping_inc(@)], Ok(Unit))
          [] ty = "DECREMENT_COUNTER" ->
               Reduced([state EXCEPT !.counter = wrapping_dec(@)], Ok(Unit))
          [] ty = "SET_COUNTER" ->
               IF p = None
               THEN Reduced(state, Err("Missing payload for SET_COUNTER"))
               ELSE IF as_i64_is_some(p)
               THEN Reduced([state EXCEPT !.counter = as_i32(p)], Ok(Unit))
               ELSE Reduced([state EXCEPT !.counter = 0],
                            Err("Payload for SET_COUNTER must be a number"))
          [] ty = "TOGGLE_THEME" ->
               Reduced([state EXCEPT !.theme.is_dark = ~@], Ok(Unit))
          [] ty = "SET_THEME" ->
               IF p = None
               THEN Reduced(state, Err("Missing payload for SET_THEME"))
               ELSE IF as_bool_is_some(p)
               THEN Reduced([state EXCEPT !.theme.is_dark = p.b], Ok(Unit))
               ELSE Reduced(state, Err("Payload for SET_THEME must be a boolean"))
          [] ty = "SET_STATE" ->
               IF p = None
               THEN Reduced(state, Err("Missing payload for SET_STATE"))
               ELSE IF from_value_ok(p)
               THEN Reduced(from_value(p), Ok(Unit))
               ELSE Reduced(state, Err("Failed to deserialize state"))
          [] OTHER ->
               Reduced(state, Err("Unknown action type"))

\* example.rs app_reducer
app_reducer(state, action) ==
    LET ty == action.type
        p == action.payload
    IN  CASE ty = "INCREMENT_COUNTER" ->
               Reduced([state EXCEPT !.counter = wrapping_inc(@)], Ok(Unit))
          [] ty = "DECREMENT_COUNTER" ->
               Reduced([state EXCEPT !.counter = wrapping_dec(@)], Ok(Unit))
          [] ty = "SET_COUNTER" ->
               IF p = None
               THEN Reduced(state, Err("Missing payload for SET_COUNTER"))
               ELSE IF as_i64_is_some(p)
               THEN Reduced([state EXCEPT !.counter = as_i32(p)], Ok(Unit))
               ELSE Reduced(state, Err("Payload for SET_COUNTER must be a number"))
          [] ty = "TOGGLE_THEME" ->
               Reduced([state EXCEPT !.theme.is_dark = ~@], Ok(Unit))
          [] ty = "SET_THEME" ->
               IF p = None
               THEN Reduced(state, Err("Missing payload for SET_THEME"))
               ELSE IF as_bool_is_some(p)
               THEN Reduced([state EXCEPT !.theme.is_dark = p.b], Ok(Unit))
               ELSE Reduced(state, Err("Payload for SET_THEME must be a boolean"))
          [] ty = "SET_STATE" ->
               IF p = None
               THEN Reduced(state, Err("Missing payload for SET_STATE"))
               ELSE IF from_value_ok(p)
               THEN Reduced(from_value(p), Ok(Unit))
               ELSE Reduced(state, Err("Failed to deserialize state"))
          [] OTHER ->
               Reduced(state, Err("Unknown action type"))

\* app_reducer's `state.counter += 1` / `state.counter -= 1` leaves the i32
\* range: a build with overflow checks panics there ("attempt to add with
\* overflow"), a build without them wraps.
overflows(state, action) ==
    \/ action.type = "INCREMENT_COUNTER" /\ state.counter = MaxI32
    \/ action.type = "DECREMENT_COUNTER" /\ state.counter = MinI32

\* ZubridgeOptions (event_name, auto_emit_updates; the command names only
\* route requests and are not modelled)
ZubridgeOptions(name, auto) == [event_name |-> name, auto_emit_updates |-> auto]
\* impl Default for ZubridgeOptions
ZubridgeOptionsDefault == ZubridgeOptions("__zubridge_state_update", TRUE)

\* ------------------------------------------------------------------ state
VARIABLES
    app,            \* which program this behaviour runs: "core", "plugin", "v1",
                    \* "commands"
    calls,          \* number of calls issued so far
    pc,             \* pc[t]: where thread t stands in its call
    op,             \* op[t]: the entry point thread t is in
    cid,            \* cid[t]: the number of thread t's call
    act,            \* act[t]: the argument of thread t's call
    local,          \* local[t]: the call's local value (borrowed state, clone)
    pa,             \* pa[t]: what the state manager returned to the caller
    res,            \* res[t]: what the call returned
    logged,         \* logged[t]: what the call wrote with eprintln!
    events,         \* the events emitted so far, oldest first
    options,        \* the ZubridgeOptions the handler / plugin was built with
    inner,          \* core: MutexStateManager.inner, the guarded AppState
    inner_holder,   \* core: the thread holding MutexStateManager.inner
    inner_poisoned, \* core: a thread panicked holding that mutex
    seq_state,      \* the calls that took effect, applied one at a time
    seq_prefixes,   \* the serialized state after each prefix of them
    commit_log,     \* <<thread, call>> of each of them, in that order
    overlapped,     \* a call started while another thread was in a call
    state_manager,  \* plugin: the Arc<Mutex<dyn StateManager>> the app
                    \* manages: NoManager, or the manager it wraps
    state_manager_holder,   \* plugin: the thread holding the managed
                            \* Arc<Mutex<dyn StateManager>>
    state_manager_poisoned, \* plugin: a thread panicked holding that mutex
    state,          \* plugin: AppStateManager.state, the guarded AppState
    state_holder,   \* plugin: the thread holding AppStateManager.state
    locked_state,   \* v1: the CounterState behind AppState.0
    locked_state_holder, \* v1: the thread holding AppState.0
    tray_menu,      \* v1: the counter the tray menu shows
    tray_builds,    \* v1: the calls that have set the tray menu
    managed,        \* commands: the managed Mutex<serde_json::Value>
    managed_holder, \* polling apps: the thread holding that mutex
    poller,         \* polling apps: where the counter display thread stands
    last_state,     \* polling apps: last_state of the counter display thread
    current,        \* polling apps: current of the counter display thread
    counter_value   \* polling apps: the counter the tray menu label shows

core_store == <<inner, inner_holder, inner_poisoned>>
plugin_store == <<state_manager_holder, state_manager_poisoned, state,
                  state_holder>>
v1_store == <<locked_state, locked_state_holder, tray_menu, tray_builds>>
polling_store == <<managed_holder, poller, last_state, current, counter_value>>
commands_store == <<managed, polling_store>>
\* the record of what took effect, kept beside the program's own state
history == <<seq_state, seq_prefixes, commit_log>>

vars == <<state_manager, app, calls, pc, op, cid, act, local, pa, res, logged, events, options,
          overlapped, history, core_store, plugin_store, v1_store,
          commands_store>>

\* a thread between two calls
Idle(t) == pc[t] \in {"idle", "done"}

\* A thread starts its next call: entry point o with argument a, at label l,
\* with r in its result slot.  The worker threads are interchangeable, so a
\* call that needs a fresh thread takes the lowest-numbered one.
StartCallWithin(t, o, a, l, r, quota) ==
    /\ Idle(t)
    /\ calls < quota
    /\ \A u \in Threads : u < t => cid[u] # 0
    /\ calls' = calls + 1
    /\ cid' = [cid EXCEPT ![t] = calls + 1]
    /\ op' = [op EXCEPT ![t] = o]
    /\ act' = [act EXCEPT ![t] = a]
    /\ pc' = [pc EXCEPT ![t] = l]
    /\ local' = [local EXCEPT ![t] = JNull]
    /\ pa' = [pa EXCEPT ![t] = Ok(Unit)]
    /\ res' = [res EXCEPT ![t] = r]
    /\ logged' = [logged EXCEPT ![t] = ""]
    /\ overlapped' = (overlapped \/ \E u \in Threads \ {t} : ~Idle(u))

StartCall(t, o, a, l, r) == StartCallWithin(t, o, a, l, r, MaxCalls)

\* The call of thread t returns r.
Return(t, r) ==
    /\ pc' = [pc EXCEPT ![t] = "done"]
    /\ res' = [res EXCEPT ![t] = r]

\* AppHandle::emit(name, payload): the event reaches the listeners, or emit
\* returns an error and nothing is delivered.
Event(name, payload, call) == [name |-> name, payload |-> payload, call |-> call]
Emit(name, payload, call, delivered) ==
    events' = IF delivered THEN Append(events, Event(name, payload, call))
              ELSE events

\* -------------------------------------- backend-core: the calls' arguments
CoreActions ==
    { Action("INCREMENT_COUNTER", None),
      Action("DECREMENT_COUNTER", None),
      Action("SET_COUNTER", JInt(7)),
      Action("SET_COUNTER", JStr("abc")),
      Action("SET_COUNTER", None),
      Action("TOGGLE_THEME", None),
      Action("SET_THEME", JBool(FALSE)),
      Action("SET_THEME", JInt(1)),
      Action("SET_THEME", None),
      Action("SET_STATE", JObj(JInt(5), JBool(FALSE))),
      Action("SET_STATE", JObj(JStr("x"), JBool(TRUE))),
      Action("SET_STATE", None),
      Action("BOGUS_ACTION", None) }

CoreStates ==
    { JObj(JInt(3), JBool(FALSE)),
      JObjExtra(JInt(3), JBool(FALSE)),
      JObj(JInt(3), JAbsent),
      JNull }

CoreOptions ==
    { ZubridgeOptionsDefault,
      ZubridgeOptions("app_state_update", TRUE),
      ZubridgeOptions("__zubridge_state_update", FALSE) }


\* what every step of backend-core leaves as it is
fixed == <<app, options, plugin_store, v1_store, commands_store, state_manager>>

\* ------------------------------------------ backend-core: StateManager impl
\* The calls that took effect so far, applied one at a time in the order in
\* which they wrote the state.
Committed(t, s, serialized) ==
    /\ seq_state' = s
    /\ seq_prefixes' = seq_prefixes \cup {serialized}
    /\ commit_log' = Append(commit_log, <<t, cid[t]>>)

\* dispatch_action_handler with the result of process_action dropped
\* (`let _ = state_manager.process_action(&action);`)
after_process_action_unchecked(result, auto_emit_updates) ==
    IF auto_emit_updates THEN "emit" ELSE "return_ok"

\* dispatch_action_handler looking at the result of process_action only
\* inside `if options.auto_emit_updates { .. }`
after_process_action_when_emitting(result, auto_emit_updates) ==
    IF ~auto_emit_updates THEN "return_ok"
    ELSE IF ~result.ok THEN "return_err"
    ELSE "emit"

\* dispatch_action_handler after process_action returned: `?` returns the
\* Err, otherwise the handler emits when auto_emit_updates is set.
after_process_action(result, auto_emit_updates) ==
    IF ~result.ok THEN "return_err"
    ELSE IF auto_emit_updates THEN "emit"
    ELSE "return_ok"

CallDispatch(t) ==
    /\ app = "core"
    /\ \E a \in CoreActions : StartCall(t, "dispatch", a, "pa_lock", Ok(Unit))
    /\ UNCHANGED <<fixed, history, core_store, events>>

\* process_action reaching the state without waiting for the mutex
ProcessActionNoLock(t) ==
    /\ app = "core"
    /\ pc[t] = "pa_lock"
    /\ IF inner_poisoned
       THEN /\ pa' = [pa EXCEPT ![t] = Err("Failed to lock state mutex")]
            /\ Return(t, Err("Failed to lock state mutex"))
            /\ UNCHANGED <<inner_holder, local>>
       ELSE /\ inner_holder' = t
            /\ local' = [local EXCEPT ![t] = inner]
            /\ pc' = [pc EXCEPT ![t] = "pa_reduce"]
            /\ UNCHANGED <<pa, res>>
    /\ UNCHANGED <<fixed, overlapped, calls, op, cid, act, logged, events,
                   inner, inner_poisoned, history>>

\* process_action: self.inner.lock() with map_err and `?`; the guard gives
\* the reducer its &mut T.  A poisoned mutex is answered with Err("Failed to
\* lock state mutex: .."), which the handler's `?` returns.
ProcessActionLock(t) ==
    /\ app = "core"
    /\ pc[t] = "pa_lock"
    /\ inner_holder = NoThread
    /\ IF inner_poisoned
       THEN /\ pa' = [pa EXCEPT ![t] = Err("Failed to lock state mutex")]
            /\ Return(t, Err("Failed to lock state mutex"))
            /\ UNCHANGED <<inner_holder, local>>
       ELSE /\ inner_holder' = t
            /\ local' = [local EXCEPT ![t] = inner]
            /\ pc' = [pc EXCEPT ![t] = "pa_reduce"]
            /\ UNCHANGED <<pa, res>>
    /\ UNCHANGED <<fixed, overlapped, calls, op, cid, act, logged, events,
                   inner, inner_poisoned, history>>

\* process_action running the reducer on a clone of the guarded state
\* (`let mut state = self.inner.lock()?.clone();`): the result is returned,
\* the stored state is not written
ProcessActionReduceOnClone(t) ==
    /\ app = "core"
    /\ pc[t] = "pa_reduce"
    /\ \E checked \in IF overflows(local[t], act[t]) THEN BOOLEAN ELSE {FALSE} :
          IF checked
          THEN /\ inner_poisoned' = TRUE
               /\ inner_holder' = NoThread
               /\ pc' = [pc EXCEPT ![t] = "panicked"]
               /\ UNCHANGED <<inner, pa, res, history>>
          ELSE LET r == app_reducer(local[t], act[t])
                   next == after_process_action(r.result,
                                                options.auto_emit_updates)
               IN  /\ inner' = inner
                   /\ inner_holder' = NoThread
                   /\ pa' = [pa EXCEPT ![t] = r.result]
                   /\ IF r.result.ok
                      THEN LET s == app_reducer(seq_state, act[t]).state
                           IN  Committed(t, s, to_value(s))
                      ELSE UNCHANGED history
                   /\ CASE next = "return_err" -> Return(t, r.result)
                        [] next = "return_ok" -> Return(t, Ok(Unit))
                        [] next = "emit" ->
                             /\ pc' = [pc EXCEPT ![t] = "gs_lock"]
                             /\ UNCHANGED res
                   /\ UNCHANGED inner_poisoned
    /\ UNCHANGED <<fixed, overlapped, calls, op, cid, act, local, logged,
                   events>>

\* process_action: (self.reducer)(&mut state, action), the guard dropped on
\* return; then the handler's `?` and its auto_emit_updates test.  Where the
\* reducer's arithmetic overflows, the build decides (checked): with
\* overflow checks the reducer panics before it writes, the unwinding drops
\* the guard and poisons the mutex, and the call never answers.
ProcessActionReduce(t) ==
    /\ app = "core"
    /\ pc[t] = "pa_reduce"
    /\ \E checked \in IF overflows(local[t], act[t]) THEN BOOLEAN ELSE {FALSE} :
          IF checked
          THEN /\ inner_poisoned' = TRUE
               /\ inner_holder' = NoThread
               /\ pc' = [pc EXCEPT ![t] = "panicked"]
               /\ UNCHANGED <<inner, pa, res, history>>
          ELSE LET r == app_reducer(local[t], act[t])
                   next == after_process_action(r.result,
                                                options.auto_emit_updates)
               IN  /\ inner' = r.state
                   /\ inner_holder' = NoThread
                   /\ pa' = [pa EXCEPT ![t] = r.result]
                   /\ IF r.result.ok
                      THEN LET s == app_reducer(seq_state, act[t]).state
                           IN  Committed(t, s, to_value(s))
                      ELSE UNCHANGED history
                   /\ CASE next = "return_err" -> Return(t, r.result)
                        [] next = "return_ok" -> Return(t, Ok(Unit))
                        [] next = "emit" ->
                             /\ pc' = [pc EXCEPT ![t] = "gs_lock"]
                             /\ UNCHANGED res
                   /\ UNCHANGED inner_poisoned
    /\ UNCHANGED <<fixed, overlapped, calls, op, cid, act, local, logged,
                   events>>

CallGetState(t) ==
    /\ app = "core"
    /\ StartCall(t, "get_state", None, "gs_lock", Ok(Unit))
    /\ UNCHANGED <<fixed, history, core_store, events>>

\* get_state moving the state out of the mutex (std::mem::take(&mut *state))
\* in place of cloning it: the default state is left behind
GetStateTake(t) ==
    /\ app = "core"
    /\ pc[t] = "gs_lock"
    /\ inner_holder = NoThread
    /\ IF inner_poisoned
       THEN /\ pc' = [pc EXCEPT ![t] = "panicked"]
            /\ UNCHANGED <<res, local, inner>>
       ELSE /\ inner' = AppStateDefault
            /\ IF op[t] = "get_state"
               THEN /\ Return(t, Ok(to_value(inner)))
                    /\ UNCHANGED local
               ELSE /\ local' = [local EXCEPT ![t] = to_value(inner)]
                    /\ pc' = [pc EXCEPT ![t] = "emit"]
                    /\ UNCHANGED res
    /\ UNCHANGED <<fixed, overlapped, calls, op, cid, act, pa, logged, events,
                   history, inner_holder, inner_poisoned>>

\* get_state: self.inner.lock().unwrap(), serde_json::to_value(
\* state.clone()), the guard dropped on return: one step, taken when the
\* mutex is free.  In the handler the value is current_state, to be emitted.
\* On a poisoned mutex lock() returns Err and unwrap() panics.
GetState(t) ==
    /\ app = "core"
    /\ pc[t] = "gs_lock"
    /\ inner_holder = NoThread
    /\ IF inner_poisoned
       THEN /\ pc' = [pc EXCEPT ![t] = "panicked"]
            /\ UNCHANGED <<res, local>>
       ELSE IF op[t] = "get_state"
       THEN /\ Return(t, Ok(to_value(inner)))
            /\ UNCHANGED local
       ELSE /\ local' = [local EXCEPT ![t] = to_value(inner)]
            /\ pc' = [pc EXCEPT ![t] = "emit"]
            /\ UNCHANGED res
    /\ UNCHANGED <<fixed, overlapped, calls, op, cid, act, pa, logged, events,
                   history, core_store>>

\* dispatch_action_handler putting the default state back when the emit
\* has failed
HandlerEmitRollback(t) ==
    /\ app = "core"
    /\ pc[t] = "emit"
    /\ \E delivered \in BOOLEAN :
          /\ Emit(options.event_name, local[t], cid[t], delivered)
          /\ logged' = [logged EXCEPT ![t] =
                           IF delivered THEN @
                           ELSE "Zubridge: Error emitting state update event"]
          /\ inner' = IF delivered THEN inner ELSE AppStateDefault
    /\ Return(t, Ok(Unit))
    /\ UNCHANGED <<fixed, overlapped, calls, op, cid, act, local, pa, history,
                   inner_holder, inner_poisoned>>

\* dispatch_action_handler: app_handle.emit(&options.event_name,
\* current_state); an error is written to stderr and the handler returns Ok.
HandlerEmit(t) ==
    /\ app = "core"
    /\ pc[t] = "emit"
    /\ \E delivered \in BOOLEAN :
          /\ Emit(options.event_name, local[t], cid[t], delivered)
          /\ logged' = [logged EXCEPT ![t] =
                           IF delivered THEN @
                           ELSE "Zubridge: Error emitting state update event"]
    /\ Return(t, Ok(Unit))
    /\ UNCHANGED <<fixed, overlapped, calls, op, cid, act, local, pa, history,
                   core_store>>

\* set_state skipping the assignment for a value it cannot deserialize
\* (`if let Ok(new_state) = serde_json::from_value(state) { .. }`) and
\* returning Ok(())
CallSetStateLenient(t) ==
    /\ app = "core"
    /\ \E v \in CoreStates :
          IF from_value_ok(v)
          THEN StartCall(t, "set_state", v, "ss_lock", Ok(Unit))
          ELSE StartCall(t, "set_state", v, "done", Ok(Unit))
    /\ UNCHANGED <<fixed, history, core_store, events>>

\* set_state: serde_json::from_value(state) with `?`, before any locking
CallSetState(t) ==
    /\ app = "core"
    /\ \E v \in CoreStates :
          IF from_value_ok(v)
          THEN StartCall(t, "set_state", v, "ss_lock", Ok(Unit))
          ELSE StartCall(t, "set_state", v, "done",
                         Err("Failed to deserialize state"))
    /\ UNCHANGED <<fixed, history, core_store, events>>

\* set_state validating the value and returning Ok(()) without the
\* assignment to *current_state
SetStateDiscard(t) ==
    /\ app = "core"
    /\ pc[t] = "ss_lock"
    /\ inner_holder = NoThread
    /\ IF inner_poisoned
       THEN /\ Return(t, Err("Failed to lock state mutex"))
            /\ UNCHANGED <<inner, history>>
       ELSE /\ inner' = inner
            /\ UNCHANGED history
            /\ Return(t, Ok(Unit))
    /\ UNCHANGED <<fixed, overlapped, calls, op, cid, act, local, pa, logged,
                   events, inner_holder, inner_poisoned>>

\* set_state: self.inner.lock() with map_err and `?`, *current_state =
\* new_state, Ok(()), the guard dropped on return: one step, taken when the
\* mutex is free.
SetState(t) ==
    /\ app = "core"
    /\ pc[t] = "ss_lock"
    /\ inner_holder = NoThread
    /\ IF inner_poisoned
       THEN /\ Return(t, Err("Failed to lock state mutex"))
            /\ UNCHANGED <<inner, history>>
       ELSE /\ inner' = from_value(act[t])
            /\ Committed(t, from_value(act[t]), to_value(from_value(act[t])))
            /\ Return(t, Ok(Unit))
    /\ UNCHANGED <<fixed, overlapped, calls, op, cid, act, local, pa, logged,
                   events, inner_holder, inner_poisoned>>

\* the actions of a caller that dispatches one action after another
CallerActions ==
    { Action("INCREMENT_COUNTER", None),
      Action("SET_COUNTER", JInt(7)),
      Action("SET_COUNTER", JStr("abc")) }

\* a dispatch among up to MaxCallerCalls calls
CallDispatchInTurn(t) ==
    /\ app = "core"
    /\ \E a \in CallerActions :
          StartCallWithin(t, "dispatch", a, "pa_lock", Ok(Unit), MaxCallerCalls)
    /\ UNCHANGED <<fixed, history, core_store, events>>

\* the actions of callers that take the counter to the ends of the i32
\* range and past them
LimitActions ==
    { Action("SET_COUNTER", JInt(MaxI32)),
      Action("SET_COUNTER", JInt(MinI32)),
      Action("SET_COUNTER", JWide(1, 5)),
      Action("INCREMENT_COUNTER", None),
      Action("DECREMENT_COUNTER", None) }

\* a dispatch of one of them among up to MaxCallerCalls calls
CallDispatchAtLimit(t) ==
    /\ app = "core"
    /\ \E a \in LimitActions :
          StartCallWithin(t, "dispatch", a, "pa_lock", Ok(Unit), MaxCallerCalls)
    /\ UNCHANGED <<fixed, history, core_store, events>>

\* a get_state among up to MaxCallerCalls calls
CallGetStateInTurn(t) ==
    /\ app = "core"
    /\ StartCallWithin(t, "get_state", None, "gs_lock", Ok(Unit),
                       MaxCallerCalls)
    /\ UNCHANGED <<fixed, history, core_store, events>>

\* backend-core with the counter at the ends of the i32 range
LimitsNext ==
    \E t \in Threads :
        \/ CallDispatchAtLimit(t)
        \/ CallGetStateInTurn(t)
        \/ ProcessActionLock(t)
        \/ ProcessActionReduce(t)
        \/ GetState(t)
        \/ HandlerEmit(t)

\* ------------------------------------ backend-core: the registered commands
\* the message of a request: a JSON object with the keys it has, or the
\* JSON null
RawMessage(type, payload) ==
    [message |-> "object", type |-> type, payload |-> payload]
RawNull == [message |-> "null"]
RawMessages ==
    { RawMessage(JStr("INCREMENT_COUNTER"), JAbsent),
      RawMessage(JStr("SET_COUNTER"), JInt(7)),
      RawMessage(JStr("SET_COUNTER"), JNull),
      RawMessage(JAbsent, JInt(1)),
      RawMessage(JInt(5), JAbsent),
      RawNull }

\* serde_json::from_str::<ZubridgeAction>: the derived Deserialize wants an
\* object whose "type" is a string; payload: Option<JsonValue> is None for
\* a missing key and for null
zubridge_action_ok(msg) == msg.message = "object" /\ msg.type.k = "str"
zubridge_action(msg) ==
    Action(msg.type.s,
           IF msg.payload \in {JAbsent, JNull} THEN None ELSE msg.payload)

\* the dispatch command answering Ok("") to a message it cannot deserialize
\* (`if let Ok(action) = serde_json::from_str(..) { .. }`)
CallDispatchCommandLenient(t) ==
    /\ app = "core"
    /\ \E msg \in RawMessages :
          IF zubridge_action_ok(msg)
          THEN StartCall(t, "dispatch_command", zubridge_action(msg),
                         "pa_lock", Ok(Unit))
          ELSE StartCall(t, "dispatch_command", msg, "done", Ok(Unit))
    /\ UNCHANGED <<fixed, history, core_store, events>>

\* register_commands, command == dispatch_command: serde_json::from_str(
\* request.message())? and then the dispatch handler, whose Ok(()) is
\* answered as Ok("") and whose Err as a tauri::Error.  Unit stands for both
\* () and the empty answer.
CallDispatchCommand(t) ==
    /\ app = "core"
    /\ \E msg \in RawMessages :
          IF zubridge_action_ok(msg)
          THEN StartCall(t, "dispatch_command", zubridge_action(msg),
                         "pa_lock", Ok(Unit))
          ELSE StartCall(t, "dispatch_command", msg, "done",
                         Err("tauri::Error: invalid action"))
    /\ UNCHANGED <<fixed, history, core_store, events>>

\* register_commands, any other command name
CallUnknownCommand(t) ==
    /\ app = "core"
    /\ StartCall(t, "unknown_command", None, "done", Err("Unknown command"))
    /\ UNCHANGED <<fixed, history, core_store, events>>

\* the handler that register_commands installs
RegisteredNext ==
    \E t \in Threads :
        \/ CallDispatchCommand(t)
        \/ CallGetState(t)
        \/ CallUnknownCommand(t)
        \/ ProcessActionLock(t)
        \/ ProcessActionReduce(t)
        \/ GetState(t)
        \/ HandlerEmit(t)

\* the payload: Option<JsonValue> of a ZubridgeAction read from the frontend's
\* {"type": .., "payload": P}: None for null
payload_of(v) == IF v = JNull THEN None ELSE v

\* a dispatch of SET_STATE with one of the values set_state is called with
CallDispatchSetState(t) ==
    /\ app = "core"
    /\ \E v \in CoreStates :
          StartCall(t, "dispatch", Action("SET_STATE", payload_of(v)),
                    "pa_lock", Ok(Unit))
    /\ UNCHANGED <<fixed, history, core_store, events>>

\* the state replaced by set_state and by dispatches of SET_STATE
SetStateNext ==
    \E t \in Threads :
        \/ CallSetState(t)
        \/ SetState(t)
        \/ CallDispatchSetState(t)
        \/ ProcessActionLock(t)
        \/ ProcessActionReduce(t)
        \/ GetState(t)
        \/ HandlerEmit(t)

CoreNext ==
    \E t \in Threads :
        \/ CallDispatch(t)
        \/ ProcessActionLock(t)
        \/ ProcessActionReduce(t)
        \/ CallGetState(t)
        \/ GetState(t)
        \/ HandlerEmit(t)
        \/ CallSetState(t)
        \/ SetState(t)

\* ================================================== tauri-plugin-zubridge
\* models.rs: the plugin's ZubridgeOptions { event_name } and its Default
PluginOptions(name) == [event_name |-> name]
PluginOptionsDefault == PluginOptions("zubridge://state-update")

\* desktop.rs init: the Zubridge struct is built with
\* ZubridgeOptions::default(); the options given to plugin() are managed as
\* app state of their own.
zubridge_options == PluginOptionsDefault

\* desktop.rs dispatch_action: json!({"type": action.action_type,
\* "payload": action.payload}); a None payload is written as null.
action_json(action) ==
    [type |-> action.type,
     payload |-> IF action.payload = None THEN JNull ELSE action.payload]

\* ----------------------------------------- apps/tauri-example: CounterAction
\* #[serde(tag = "type")] enum CounterAction: the variant a type string names
variant_of(type) ==
    CASE type = "COUNTER:INCREMENT" -> "Increment"
      [] type = "COUNTER:DECREMENT" -> "Decrement"
      [] type = "COUNTER:RESET" -> "Reset"
      [] type = "THEME:TOGGLE" -> "ToggleTheme"
      [] type = "COUNTER:SET" -> "SetCounter"
      [] OTHER -> "unknown"

\* serde_json::from_value::<CounterAction>(action): a unit variant ignores
\* the other keys; SetCounter { #[serde(default)] payload: i32 } takes 0 for
\* a missing key and otherwise wants an i32.
counter_action_ok(j) ==
    LET v == variant_of(j.type)
    IN  \/ v \in {"Increment", "Decrement", "Reset", "ToggleTheme"}
        \/ /\ v = "SetCounter"
           /\ (j.payload = JAbsent \/ from_value_i32_ok(j.payload))
counter_action(j) ==
    [variant |-> variant_of(j.type),
     payload |-> IF variant_of(j.type) = "SetCounter" /\ j.payload # JAbsent
                 THEN j.payload.n ELSE 0]

\* tauri-example lib.rs app_reducer(state, action) -> AppState
example_app_reducer(s, action) ==
    CASE action.variant = "Increment" -> [s EXCEPT !.counter = @ + 1]
      [] action.variant = "Decrement" -> [s EXCEPT !.counter = @ - 1]
      [] action.variant = "Reset" -> [s EXCEPT !.counter = 0]
      [] action.variant = "ToggleTheme" -> [s EXCEPT !.theme.is_dark = ~@]
      [] action.variant = "SetCounter" -> [s EXCEPT !.counter = action.payload]

\* the manual COUNTER:SET handling of the Err arm is entered
manual_set(j) ==
    /\ j.type = "COUNTER:SET"
    /\ j.payload # JAbsent
    /\ is_number(j.payload)
\* payload.as_i64().unwrap_or(0) as i32
manual_value(v) == IF as_i64_is_some(v) THEN as_i32(v) ELSE 0

\* the response of a rejected action built from AppState::default()
\* in place of the stored state
error_response_default(s, error) ==
    [k |-> "response", state |-> to_value(AppStateDefault), success |-> FALSE,
     error |-> error]

\* the response of a rejected action
error_response(s, error) ==
    [k |-> "response", state |-> to_value(s), success |-> FALSE,
     error |-> error]

\* what every step of the plugin leaves as it is
plugin_rest == <<app, options, core_store, v1_store, commands_store>>
plugin_fixed == <<plugin_rest, state_manager>>

PluginActions ==
    { Action("COUNTER:INCREMENT", None),
      Action("COUNTER:DECREMENT", JInt(1)),
      Action("COUNTER:RESET", None),
      Action("THEME:TOGGLE", None),
      Action("COUNTER:SET", JInt(7)),
      Action("COUNTER:SET", None),
      Action("COUNTER:SET", JStr("abc")),
      Action("COUNTER:SET", JFloat),
      Action("COUNTER:SET", JWide(1, 5)),
      Action("BOGUS_ACTION", None) }

\* the JSON values handed to AppStateManager::dispatch_action by a caller
\* that has the manager to itself (the method takes &mut self): objects
\* with a "type" and with or without a "payload" key
ManagerInputs ==
    { [type |-> "COUNTER:INCREMENT", payload |-> JAbsent],
      [type |-> "COUNTER:SET", payload |-> JInt(7)],
      [type |-> "COUNTER:SET", payload |-> JAbsent],
      [type |-> "COUNTER:SET", payload |-> JNull],
      [type |-> "COUNTER:SET", payload |-> JStr("abc")],
      [type |-> "COUNTER:SET", payload |-> JFloat] }

\* the JSON value AppStateManager::dispatch_action is given: what
\* Zubridge::dispatch_action built from its action, or the caller's value
manager_action(t) ==
    IF op[t] = "manager_dispatch" THEN act[t] ELSE action_json(act[t])

\* StateManager::dispatch_action called on the manager itself; the guard of
\* the managed mutex is what gives the caller its &mut
CallManagerDispatch(t) ==
    /\ app = "plugin"
    /\ \E j \in ManagerInputs :
          StartCall(t, "manager_dispatch", j, "p_lock", Ok(Unit))
    /\ UNCHANGED <<plugin_fixed, history, plugin_store, events>>

CallPluginDispatch(t) ==
    /\ app = "plugin"
    /\ \E a \in PluginActions :
          StartCall(t, "dispatch_action", a, "p_lock", Ok(Unit))
    /\ UNCHANGED <<plugin_fixed, history, plugin_store, events>>

\* Zubridge::dispatch_action entering the state manager without waiting
\* for the managed mutex
PluginLockNoWait(t) ==
    /\ app = "plugin"
    /\ pc[t] = "p_lock"
    /\ state_manager # NoManager
    /\ IF state_manager_poisoned
       THEN /\ Return(t, Err("StateError: poisoned lock"))
            /\ UNCHANGED state_manager_holder
       ELSE /\ state_manager_holder' = t
            /\ pc' = [pc EXCEPT ![t] = "p_parse"]
            /\ UNCHANGED res
    /\ UNCHANGED <<plugin_fixed, overlapped, calls, op, cid, act, local, pa,
                   logged, events, history, state_manager_poisoned, state,
                   state_holder>>

\* Zubridge::dispatch_action: try_state finds the state manager;
\* state_manager.inner().lock() with map_err and `?`: a poisoned mutex is
\* answered with StateError.
PluginLock(t) ==
    /\ app = "plugin"
    /\ pc[t] = "p_lock"
    /\ state_manager # NoManager
    /\ state_manager_holder = NoThread
    /\ IF state_manager_poisoned
       THEN /\ Return(t, Err("StateError: poisoned lock"))
            /\ UNCHANGED state_manager_holder
       ELSE /\ state_manager_holder' = t
            /\ pc' = [pc EXCEPT ![t] = "p_parse"]
            /\ UNCHANGED res
    /\ UNCHANGED <<plugin_fixed, overlapped, calls, op, cid, act, local, pa,
                   logged, events, history, state_manager_poisoned, state,
                   state_holder>>

\* AppStateManager::dispatch_action, up to `let result = match ...`.
\* Ok arm: the state is read under a guard that is dropped at the end of
\* the arm.  Err arm: the guard `state` lives to the end of the arm; the
\* manual COUNTER:SET handling locks self.state again under it.
ManagerParse(t) ==
    /\ app = "plugin"
    /\ pc[t] = "p_parse"
    /\ state_holder = NoThread
    /\ LET j == manager_action(t)
       IN  IF counter_action_ok(j)
           THEN /\ local' = [local EXCEPT ![t] =
                                Ok(example_app_reducer(state, counter_action(j)))]
                /\ pc' = [pc EXCEPT ![t] = "p_update"]
                /\ UNCHANGED state_holder
           ELSE IF manual_set(j)
           THEN /\ local' = [local EXCEPT ![t] =
                                Ok([state EXCEPT !.counter = manual_value(j.payload)])]
                /\ pc' = [pc EXCEPT ![t] = "p_relock"]
                /\ state_holder' = t
           ELSE /\ local' = [local EXCEPT ![t] = Err("Failed to parse action")]
                /\ pc' = [pc EXCEPT ![t] = "p_update"]
                /\ UNCHANGED state_holder
    /\ UNCHANGED <<plugin_fixed, overlapped, calls, op, cid, act, pa, res,
                   logged, events, history, state_manager_holder,
                   state_manager_poisoned, state>>

\* `let mut locked_state = self.state.lock().unwrap()` on the mutex this
\* thread holds.  std::sync::Mutex::lock does not return then: it blocks for
\* ever or panics.  A panic unwinds through the guard of self.state and
\* through state_guard of Zubridge::dispatch_action: both are released, and
\* the managed mutex is poisoned.
ManagerRelock(t) ==
    /\ app = "plugin"
    /\ pc[t] = "p_relock"
    /\ state_holder = t
    /\ \E outcome \in {"deadlocked", "panicked"} :
          /\ pc' = [pc EXCEPT ![t] = outcome]
          /\ IF outcome = "panicked"
             THEN /\ state_holder' = NoThread
                  /\ state_manager_holder' = NoThread
                  /\ state_manager_poisoned' = TRUE
             ELSE UNCHANGED <<state_holder, state_manager_holder,
                              state_manager_poisoned>>
    /\ UNCHANGED <<plugin_fixed, overlapped, calls, op, cid, act, local, pa,
                   res, logged, events, history, state>>

\* Zubridge::dispatch_action without its drop(state_guard): the guard of
\* the managed mutex lives to the end of the function, across the emit
ManagerUpdateKeepGuard(t) ==
    /\ app = "plugin"
    /\ pc[t] = "p_update"
    /\ state_holder = NoThread
    /\ LET answer == IF local[t].ok THEN to_value(local[t].value)
                     ELSE error_response(state, local[t].err)
       IN  /\ pa' = [pa EXCEPT ![t] = answer]
           /\ IF local[t].ok
              THEN /\ state' = local[t].value
                   /\ LET s == example_app_reducer(seq_state,
                                                   counter_action(manager_action(t)))
                      IN  Committed(t, s, to_value(s))
              ELSE UNCHANGED <<state, history>>
           /\ IF op[t] = "manager_dispatch"
              THEN Return(t, Ok(answer))
              ELSE /\ pc' = [pc EXCEPT ![t] = "p_emit"]
                   /\ UNCHANGED res
    /\ state_manager_holder' = state_manager_holder
    /\ UNCHANGED <<plugin_fixed, overlapped, calls, op, cid, act, local,
                   logged, events, state_manager_poisoned, state_holder>>

\* AppStateManager::dispatch_action, `match result`: Ok stores new_state and
\* answers with it, Err answers with the error response.  Back in
\* Zubridge::dispatch_action the answer is updated_state and state_guard is
\* dropped; a caller of the manager itself has its answer.
ManagerUpdate(t) ==
    /\ app = "plugin"
    /\ pc[t] = "p_update"
    /\ state_holder = NoThread
    /\ LET answer == IF local[t].ok THEN to_value(local[t].value)
                     ELSE error_response(state, local[t].err)
       IN  /\ pa' = [pa EXCEPT ![t] = answer]
           /\ IF local[t].ok
              THEN /\ state' = local[t].value
                   /\ LET s == example_app_reducer(seq_state,
                                                   counter_action(manager_action(t)))
                      IN  Committed(t, s, to_value(s))
              ELSE UNCHANGED <<state, history>>
           /\ IF op[t] = "manager_dispatch"
              THEN Return(t, Ok(answer))
              ELSE /\ pc' = [pc EXCEPT ![t] = "p_emit"]
                   /\ UNCHANGED res
    /\ state_manager_holder' = NoThread
    /\ UNCHANGED <<plugin_fixed, overlapped, calls, op, cid, act, local,
                   logged, events, state_manager_poisoned, state_holder>>

\* Zubridge::dispatch_action: self.app.emit(&self.options.event_name,
\* updated_state.clone()) with map_err and `?`, then Ok(updated_state).
PluginEmit(t) ==
    /\ app = "plugin"
    /\ pc[t] = "p_emit"
    /\ \E delivered \in BOOLEAN :
          /\ Emit(zubridge_options.event_name, pa[t], cid[t], delivered)
          /\ Return(t, IF delivered THEN Ok(pa[t]) ELSE Err("EmitError"))
    /\ UNCHANGED <<plugin_fixed, overlapped, calls, op, cid, act, local, pa,
                   logged, history, plugin_store>>

CallGetInitialState(t) ==
    /\ app = "plugin"
    /\ StartCall(t, "get_initial_state", None, "gi_lock", Ok(Unit))
    /\ UNCHANGED <<plugin_fixed, history, plugin_store, events>>

\* Zubridge::get_initial_state: lock the managed mutex (StateError when it
\* is poisoned), AppStateManager::get_initial_state under it: one step,
\* taken when the mutex is free.
PluginGetInitialState(t) ==
    /\ app = "plugin"
    /\ pc[t] = "gi_lock"
    /\ state_manager # NoManager
    /\ state_manager_holder = NoThread
    /\ state_holder = NoThread
    /\ Return(t, IF state_manager_poisoned
                 THEN Err("StateError: poisoned lock")
                 ELSE Ok(to_value(state)))
    /\ UNCHANGED <<plugin_fixed, overlapped, calls, op, cid, act, local, pa,
                   logged, events, history, plugin_store>>

\* a get_initial_state among up to MaxCallerCalls calls
CallGetInitialStateInTurn(t) ==
    /\ app = "plugin"
    /\ StartCallWithin(t, "get_initial_state", None, "gi_lock", Ok(Unit),
                       MaxCallerCalls)
    /\ UNCHANGED <<plugin_fixed, history, plugin_store, events>>

\* the actions of a caller that dispatches one action after another
PluginCallerActions ==
    { Action("COUNTER:INCREMENT", None),
      Action("COUNTER:SET", JInt(7)),
      Action("BOGUS_ACTION", None) }

\* a dispatch among up to MaxCallerCalls calls
CallPluginDispatchInTurn(t) ==
    /\ app = "plugin"
    /\ \E a \in PluginCallerActions :
          StartCallWithin(t, "dispatch_action", a, "p_lock", Ok(Unit),
                          MaxCallerCalls)
    /\ UNCHANGED <<plugin_fixed, history, plugin_store, events>>

\* ------------------------------- the plugin without, or with a later, manager
\* the state managers an app registers, each with the state it starts from
StateManagers ==
    { [id |-> 1, state |-> AppStateDefault],
      [id |-> 2, state |-> AppState(5, FALSE)] }

\* the else branch of `if let Some(state_manager) = self.app.try_state()`
\* answering with the default state, and emitting it, in place of the error
PluginNoStateManagerDefault(t) ==
    /\ app = "plugin"
    /\ pc[t] \in {"p_lock", "gi_lock"}
    /\ state_manager = NoManager
    /\ Emit(zubridge_options.event_name, to_value(AppStateDefault), cid[t],
            op[t] = "dispatch_action")
    /\ Return(t, Ok(to_value(AppStateDefault)))
    /\ UNCHANGED <<plugin_fixed, overlapped, calls, op, cid, act, local, pa,
                   logged, history, plugin_store>>

\* Zubridge::get_initial_state and Zubridge::dispatch_action, the else
\* branch of `if let Some(state_manager) = self.app.try_state()`
PluginNoStateManager(t) ==
    /\ app = "plugin"
    /\ pc[t] \in {"p_lock", "gi_lock"}
    /\ state_manager = NoManager
    /\ Return(t, Err("StateError: StateManager not found in app state"))
    /\ UNCHANGED <<plugin_fixed, overlapped, calls, op, cid, act, local, pa,
                   logged, events, history, plugin_store>>

CallRegisterStateManager(t) ==
    /\ app = "plugin"
    /\ \E s \in StateManagers :
          StartCallWithin(t, "register_state_manager", s, "r_manage",
                          Ok(Unit), MaxCallerCalls)
    /\ UNCHANGED <<plugin_fixed, history, plugin_store, events>>

\* Zubridge::register_state_manager: self.app.manage(state_arc), its
\* result dropped, Ok(()).  Manager::manage keeps the value the app already
\* manages for the type and returns false; the new Arc is dropped then.
RegisterStateManager(t) ==
    /\ app = "plugin"
    /\ pc[t] = "r_manage"
    /\ IF state_manager = NoManager
       THEN /\ state_manager' = act[t].id
            /\ state' = act[t].state
            /\ seq_state' = act[t].state
            /\ seq_prefixes' = {to_value(act[t].state)}
       ELSE UNCHANGED <<state_manager, state, seq_state, seq_prefixes>>
    /\ Return(t, Ok(Unit))
    /\ UNCHANGED <<plugin_rest, overlapped, calls, op, cid, act, local, pa,
                   logged, events, commit_log, state_manager_holder,
                   state_manager_poisoned, state_holder>>

\* an app built with init() that registers its state managers while the
\* frontend reads and dispatches
RegisterNext ==
    \E t \in Threads :
        \/ CallRegisterStateManager(t)
        \/ RegisterStateManager(t)
        \/ CallGetInitialStateInTurn(t)
        \/ CallPluginDispatchInTurn(t)
        \/ PluginNoStateManager(t)
        \/ PluginGetInitialState(t)
        \/ PluginLock(t)
        \/ ManagerParse(t)
        \/ ManagerUpdate(t)
        \/ PluginEmit(t)

\* ------------------------------------------- apps/tauri-example: the tray
\* the menu items of create_menu whose click dispatches an action
TrayItemIds == {"increment", "decrement", "reset_counter", "toggle_theme"}

\* handle_tray_item_click: the ZubridgeAction dispatch_bridge_action builds
\* for the item
tray_action(id) ==
    CASE id = "increment" -> Action("COUNTER:INCREMENT", JInt(1))
      [] id = "decrement" -> Action("COUNTER:DECREMENT", JInt(1))
      [] id = "reset_counter" -> Action("RESET", None)
      [] id = "toggle_theme" -> Action("THEME:TOGGLE", None)

\* handle_tray_item_click(app_handle, id): dispatch_bridge_action calls
\* app_handle.zubridge().dispatch_action(action) and drops its result
CallTrayItemClick(t) ==
    /\ app = "plugin"
    /\ \E id \in TrayItemIds :
          StartCallWithin(t, "handle_tray_item_click", tray_action(id),
                          "p_lock", Ok(Unit), MaxCallerCalls)
    /\ UNCHANGED <<plugin_fixed, history, plugin_store, events>>

\* the tray's clicks, one dispatch after another
TrayClickNext ==
    \E t \in Threads :
        \/ CallTrayItemClick(t)
        \/ PluginLock(t)
        \/ ManagerParse(t)
        \/ ManagerUpdate(t)
        \/ PluginEmit(t)

\* ------------------------------------------ the plugin's registered command
\* the `action` argument of an invoke of zubridge.dispatch-action: a JSON
\* object with the keys it has among "type", "action_type" and "payload"
WireMessage(type, action_type, payload) ==
    [message |-> "object", type |-> type, action_type |-> action_type,
     payload |-> payload]
WireMessages ==
    { WireMessage(JStr("COUNTER:INCREMENT"), JAbsent, JAbsent),
      WireMessage(JStr("COUNTER:SET"), JAbsent, JInt(7)),
      WireMessage(JAbsent, JStr("COUNTER:INCREMENT"), JAbsent),
      WireMessage(JAbsent, JStr("COUNTER:SET"), JInt(7)),
      WireMessage(JAbsent, JStr("COUNTER:SET"), JFloat),
      WireMessage(JStr("COUNTER:RESET"), JStr("COUNTER:INCREMENT"), JNull) }

\* models.rs ZubridgeAction, #[derive(Deserialize)] with no rename: the
\* field action_type is read from the key "action_type", which must be a
\* string; payload: Option<JsonValue> is None for a missing key and for
\* null; other keys are ignored.
plugin_action_ok(msg) == msg.action_type.k = "str"
plugin_action(msg) ==
    Action(msg.action_type.s,
           IF msg.payload \in {JAbsent, JNull} THEN None ELSE msg.payload)

\* commands.rs dispatch_action, #[command(rename =
\* "zubridge.dispatch-action")]: an invoke arrives with its arguments
CallPluginCommand(t) ==
    /\ app = "plugin"
    /\ \E msg \in WireMessages :
          StartCall(t, "zubridge.dispatch-action", msg, "p_args", Ok(Unit))
    /\ UNCHANGED <<plugin_fixed, history, plugin_store, events>>

\* the command's `action: ZubridgeAction` argument is deserialized; an
\* error rejects the invoke, otherwise the body runs
\* app.zubridge().dispatch_action(action)
CommandArgs(t) ==
    /\ app = "plugin"
    /\ pc[t] = "p_args"
    /\ IF plugin_action_ok(act[t])
       THEN /\ act' = [act EXCEPT ![t] = plugin_action(act[t])]
            /\ op' = [op EXCEPT ![t] = "dispatch_action"]
            /\ pc' = [pc EXCEPT ![t] = "p_lock"]
            /\ UNCHANGED res
       ELSE /\ Return(t, Err("invalid args: missing field action_type"))
            /\ UNCHANGED <<act, op>>
    /\ UNCHANGED <<plugin_fixed, overlapped, calls, cid, local, pa, logged,
                   events, history, plugin_store>>

\* the plugin behind its registered dispatch command
PluginCommandsNext ==
    \E t \in Threads :
        \/ CallPluginCommand(t)
        \/ CommandArgs(t)
        \/ PluginLock(t)
        \/ ManagerParse(t)
        \/ ManagerRelock(t)
        \/ ManagerUpdate(t)
        \/ PluginEmit(t)

PluginNext ==
    \E t \in Threads :
        \/ CallPluginDispatch(t)
        \/ PluginLock(t)
        \/ ManagerParse(t)
        \/ ManagerRelock(t)
        \/ ManagerUpdate(t)
        \/ PluginEmit(t)
        \/ CallGetInitialState(t)
        \/ PluginGetInitialState(t)

\* AppStateManager::dispatch_action called on the manager itself
ManagerNext ==
    \E t \in Threads :
        \/ CallManagerDispatch(t)
        \/ PluginLock(t)
        \/ ManagerParse(t)
        \/ ManagerRelock(t)
        \/ ManagerUpdate(t)

\* ======================================================= tauri-v1-example
\* lib.rs: CounterState { counter: i32 }, #[derive(Default)]
CounterState(c) == [counter |-> c]
CounterStateDefault == CounterState(0)
\* the serialized CounterState that emit_all carries
counter_to_value(s) == [k |-> "obj", counter |-> JInt(s.counter)]

\* The match of __zubridge_dispatch_action on action.action_type: the state
\* it leaves in locked_state, and whether it returned early with an Err.
Handled(s, r, early) == [state |-> s, result |-> r, early |-> early]

\* the match with the ADD_TO_COUNTER and SET_COUNTER arms falling through
\* to the emit after a payload they could not use
handle_action_fall_through(s, action) ==
    LET ty == action.type
        p == action.payload
    IN  CASE ty = "INCREMENT_COUNTER" ->
               Handled([s EXCEPT !.counter = @ + 1], Ok(Unit), FALSE)
          [] ty = "DECREMENT_COUNTER" ->
               Handled([s EXCEPT !.counter = @ - 1], Ok(Unit), FALSE)
          [] ty = "ADD_TO_COUNTER" ->
               IF p = None
               THEN Handled(s, Err("Missing payload for ADD_TO_COUNTER."), FALSE)
               ELSE IF from_value_i32_ok(p)
               THEN Handled([s EXCEPT !.counter = @ + p.n], Ok(Unit), FALSE)
               ELSE Handled(s, Err("Invalid payload for ADD_TO_COUNTER: Expected an integer."), FALSE)
          [] ty = "SET_COUNTER" ->
               IF p = None
               THEN Handled(s, Err("Missing payload for SET_COUNTER."), FALSE)
               ELSE IF from_value_i32_ok(p)
               THEN Handled([s EXCEPT !.counter = p.n], Ok(Unit), FALSE)
               ELSE Handled(s, Err("Invalid payload for SET_COUNTER: Expected an integer."), FALSE)
          [] ty = "RESET_COUNTER" ->
               Handled([s EXCEPT !.counter = 0], Ok(Unit), FALSE)
          [] OTHER ->
               Handled(s, Ok(Unit), FALSE)

\* lib.rs __zubridge_dispatch_action, `match action.action_type.as_str()`
handle_action(s, action) ==
    LET ty == action.type
        p == action.payload
    IN  CASE ty = "INCREMENT_COUNTER" ->
               Handled([s EXCEPT !.counter = @ + 1], Ok(Unit), FALSE)
          [] ty = "DECREMENT_COUNTER" ->
               Handled([s EXCEPT !.counter = @ - 1], Ok(Unit), FALSE)
          [] ty = "ADD_TO_COUNTER" ->
               IF p = None
               THEN Handled(s, Err("Missing payload for ADD_TO_COUNTER."), TRUE)
               ELSE IF from_value_i32_ok(p)
               THEN Handled([s EXCEPT !.counter = @ + p.n], Ok(Unit), FALSE)
               ELSE Handled(s, Err("Invalid payload for ADD_TO_COUNTER: Expected an integer."), TRUE)
          [] ty = "SET_COUNTER" ->
               IF p = None
               THEN Handled(s, Err("Missing payload for SET_COUNTER."), TRUE)
               ELSE IF from_value_i32_ok(p)
               THEN Handled([s EXCEPT !.counter = p.n], Ok(Unit), FALSE)
               ELSE Handled(s, Err("Invalid payload for SET_COUNTER: Expected an integer."), TRUE)
          [] ty = "RESET_COUNTER" ->
               Handled([s EXCEPT !.counter = 0], Ok(Unit), FALSE)
          [] OTHER ->
               Handled(s, Ok(Unit), FALSE)

\* what every step of tauri-v1-example leaves as it is
v1_fixed == <<app, options, core_store, plugin_store, commands_store,
              state_manager>>

V1Actions ==
    { Action("INCREMENT_COUNTER", None),
      Action("DECREMENT_COUNTER", None),
      Action("ADD_TO_COUNTER", JInt(2)),
      Action("ADD_TO_COUNTER", JStr("abc")),
      Action("ADD_TO_COUNTER", None),
      Action("SET_COUNTER", JInt(7)),
      Action("SET_COUNTER", JFloat),
      Action("SET_COUNTER", JWide(1, 5)),
      Action("SET_COUNTER", None),
      Action("RESET_COUNTER", None),
      Action("BOGUS_ACTION", None) }

CallV1Dispatch(t) ==
    /\ app = "v1"
    /\ \E a \in V1Actions :
          StartCall(t, "__zubridge_dispatch_action", a, "v_lock", Ok(Unit))
    /\ UNCHANGED <<v1_fixed, history, v1_store, events>>

\* __zubridge_dispatch_action: state.0.lock()
V1Lock(t) ==
    /\ app = "v1"
    /\ pc[t] = "v_lock"
    /\ locked_state_holder = NoThread
    /\ locked_state_holder' = t
    /\ pc' = [pc EXCEPT ![t] = "v_handle"]
    /\ UNCHANGED <<v1_fixed, overlapped, calls, op, cid, act, local, pa, res,
                   logged, events, history, locked_state, tray_menu,
                   tray_builds>>

\* __zubridge_dispatch_action: the match, then either the early return
\* (the guard is dropped with the frame) or locked_state.clone() and
\* drop(locked_state).
V1Handle(t) ==
    /\ app = "v1"
    /\ pc[t] = "v_handle"
    /\ LET h == handle_action(locked_state, act[t])
       IN  /\ locked_state' = h.state
           /\ pa' = [pa EXCEPT ![t] = h.result]
           /\ IF h.state # locked_state
              THEN Committed(t, handle_action(seq_state, act[t]).state,
                             counter_to_value(handle_action(seq_state, act[t]).state))
              ELSE UNCHANGED history
           /\ IF h.early
              THEN /\ Return(t, h.result)
                   /\ UNCHANGED local
              ELSE /\ local' = [local EXCEPT ![t] = h.state]
                   /\ pc' = [pc EXCEPT ![t] = "v_emit"]
                   /\ UNCHANGED res
    /\ locked_state_holder' = NoThread
    /\ UNCHANGED <<v1_fixed, overlapped, calls, op, cid, act, logged, events,
                   tray_menu, tray_builds>>

\* __zubridge_dispatch_action: app_handle.emit_all("__zubridge_state_update",
\* current_state_clone.clone()); an error is written to stderr.
V1Emit(t) ==
    /\ app = "v1"
    /\ pc[t] = "v_emit"
    /\ \E delivered \in BOOLEAN :
          /\ Emit("__zubridge_state_update", counter_to_value(local[t]),
                  cid[t], delivered)
          /\ logged' = [logged EXCEPT ![t] =
                           IF delivered THEN @
                           ELSE "Zubridge Backend: Error emitting state update event"]
    /\ pc' = [pc EXCEPT ![t] = "v_tray"]
    /\ UNCHANGED <<v1_fixed, overlapped, calls, op, cid, act, local, pa, res,
                   history, v1_store>>

\* __zubridge_dispatch_action: tray_handle.set_menu(tray::create_menu(
\* &current_state_clone)), then Ok(()).  create_menu writes the label
\* "Counter: {counter}".
V1SetMenu(t) ==
    /\ app = "v1"
    /\ pc[t] = "v_tray"
    /\ \E shown \in BOOLEAN :
          tray_menu' = IF shown THEN local[t].counter ELSE tray_menu
    /\ tray_builds' = tray_builds \cup {cid[t]}
    /\ Return(t, Ok(Unit))
    /\ UNCHANGED <<v1_fixed, overlapped, calls, op, cid, act, local, pa,
                   logged, events, history, locked_state, locked_state_holder>>

\* ------------------------------------ tauri-v1-example: the tray's handler
\* tray.rs handle_tray_event, SystemTrayEvent::MenuItemClick { id }: the
\* menu items that reach the state, and one that does not
TrayItems == { [id |-> "increment"], [id |-> "decrement"], [id |-> "counter"] }

CallTrayEvent(t) ==
    /\ app = "v1"
    /\ \E item \in TrayItems :
          StartCall(t, "handle_tray_event", item,
                    IF item.id \in {"increment", "decrement"} THEN "t_update"
                    ELSE "done",
                    Ok(Unit))
    /\ UNCHANGED <<v1_fixed, history, v1_store, events>>

\* handle_tray_event computing the new counter from the counter the tray
\* menu shows, not from the locked state
TrayUpdateFromMenu(t) ==
    /\ app = "v1"
    /\ pc[t] = "t_update"
    /\ locked_state_holder = NoThread
    /\ LET d == IF act[t].id = "increment" THEN 1 ELSE -1
       IN  /\ locked_state' = [locked_state EXCEPT !.counter = tray_menu + d]
           /\ Committed(t, [seq_state EXCEPT !.counter = @ + d],
                        counter_to_value([seq_state EXCEPT !.counter = @ + d]))
    /\ pc' = [pc EXCEPT ![t] = "t_read"]
    /\ UNCHANGED <<v1_fixed, overlapped, calls, op, cid, act, local, pa, res,
                   logged, events, locked_state_holder, tray_menu,
                   tray_builds>>

\* handle_tray_event: state.0.lock().unwrap().counter += 1 (or -= 1); the
\* guard is a temporary of the statement
TrayUpdate(t) ==
    /\ app = "v1"
    /\ pc[t] = "t_update"
    /\ locked_state_holder = NoThread
    /\ LET d == IF act[t].id = "increment" THEN 1 ELSE -1
       IN  /\ locked_state' = [locked_state EXCEPT !.counter = @ + d]
           /\ Committed(t, [seq_state EXCEPT !.counter = @ + d],
                        counter_to_value([seq_state EXCEPT !.counter = @ + d]))
    /\ pc' = [pc EXCEPT ![t] = "t_read"]
    /\ UNCHANGED <<v1_fixed, overlapped, calls, op, cid, act, local, pa, res,
                   logged, events, locked_state_holder, tray_menu,
                   tray_builds>>

\* handle_tray_event, `if state_changed`: state.0.lock().unwrap().clone()
TrayRead(t) ==
    /\ app = "v1"
    /\ pc[t] = "t_read"
    /\ locked_state_holder = NoThread
    /\ local' = [local EXCEPT ![t] = locked_state]
    /\ pc' = [pc EXCEPT ![t] = "t_emit"]
    /\ UNCHANGED <<v1_fixed, overlapped, calls, op, cid, act, pa, res, logged,
                   events, history, v1_store>>

\* handle_tray_event: app_handle.emit_all("__zubridge_state_update",
\* current_state_clone); an error is written to stderr.
TrayEmit(t) ==
    /\ app = "v1"
    /\ pc[t] = "t_emit"
    /\ \E delivered \in BOOLEAN :
          /\ Emit("__zubridge_state_update", counter_to_value(local[t]),
                  cid[t], delivered)
          /\ logged' = [logged EXCEPT ![t] =
                           IF delivered THEN @
                           ELSE "Tray: Error emitting state update event"]
    /\ Return(t, Ok(Unit))
    /\ UNCHANGED <<v1_fixed, overlapped, calls, op, cid, act, local, pa,
                   history, v1_store>>

\* tauri-v1-example with its tray: the command and the tray's handler
TrayNext ==
    \E t \in Threads :
        \/ CallV1Dispatch(t)
        \/ V1Lock(t)
        \/ V1Handle(t)
        \/ V1Emit(t)
        \/ V1SetMenu(t)
        \/ CallTrayEvent(t)
        \/ TrayUpdate(t)
        \/ TrayRead(t)
        \/ TrayEmit(t)

V1Next ==
    \E t \in Threads :
        \/ CallV1Dispatch(t)
        \/ V1Lock(t)
        \/ V1Handle(t)
        \/ V1Emit(t)
        \/ V1SetMenu(t)

\* ============================ zubridge-tauri, zubridge-tauri-v1 and zuri
\* commands.rs of the three packages: get_state, set_state and dispatch over
\* a managed Mutex<serde_json::Value>.  The three files differ in the name
\* of the event dispatch emits (and in emit / emit_all), kept in options.
CommandsOptions ==
    { [event_name |-> "zubridge-tauri:action"],
      [event_name |-> "zubridge-tauri-v1:action"],
      [event_name |-> "zuri:action"] }

\* the values the frontend sends to set_state: any JSON value
CommandsStates ==
    { JCounter(JInt(5)),
      JObjExtra(JInt(3), JBool(FALSE)),
      JNull }

CommandsActions ==
    { Action("INCREMENT", None),
      Action("SET", JInt(1)) }

\* Serialize of Action with #[serde(skip_serializing_if =
\* "Option::is_none")] on payload: a None payload writes no key
action_to_value_skipping(a) ==
    [k |-> "action", type |-> a.type,
     payload |-> IF a.payload = None THEN JAbsent ELSE a.payload]

\* the derived Serialize of Action { #[serde(rename = "type")] action_type,
\* payload }: a None payload is written as null
action_to_value(a) ==
    [k |-> "action", type |-> a.type,
     payload |-> IF a.payload = None THEN JNull ELSE a.payload]

\* the derived Deserialize of Action: action_type is read from the key
\* "type"; payload: Option<Value> is None for a missing key and for null
action_from_value(v) ==
    Action(v.type, IF v.payload \in {JAbsent, JNull} THEN None ELSE v.payload)

\* what every step of the commands leaves as it is
commands_fixed == <<app, options, core_store, plugin_store, v1_store,
                    state_manager>>

CallCommandGetState(t) ==
    /\ app = "commands"
    /\ StartCall(t, "get_state", None, "c_get", Ok(Unit))
    /\ UNCHANGED <<commands_fixed, history, commands_store, events>>

\* get_state: state.lock(), guard.clone(), Ok(state); the guard is dropped
\* at the end of the inner block.  No code panics under this mutex, so the
\* lock never fails.
CommandGetState(t) ==
    /\ app = "commands"
    /\ pc[t] = "c_get"
    /\ Return(t, Ok(managed))
    /\ UNCHANGED <<commands_fixed, overlapped, calls, op, cid, act, local, pa,
                   logged, events, history, commands_store>>

CallCommandSetState(t) ==
    /\ app = "commands"
    /\ \E v \in CommandsStates :
          StartCall(t, "set_state", v, "c_set", Ok(Unit))
    /\ UNCHANGED <<commands_fixed, history, commands_store, events>>

\* set_state: current_state.lock(), *guard = state, Ok(())
CommandSetState(t) ==
    /\ app = "commands"
    /\ pc[t] = "c_set"
    /\ managed' = act[t]
    /\ Committed(t, act[t], act[t])
    /\ Return(t, Ok(Unit))
    /\ UNCHANGED <<commands_fixed, overlapped, calls, op, cid, act, local, pa,
                   logged, events, polling_store>>

CallCommandDispatch(t) ==
    /\ app = "commands"
    /\ \E a \in CommandsActions :
          StartCall(t, "dispatch", a, "c_dispatch", Ok(Unit))
    /\ UNCHANGED <<commands_fixed, history, commands_store, events>>

\* dispatch applying the action itself before it relays it (the payload
\* replaces the managed state, as TestState::dispatch of the package's tests
\* does)
CommandDispatchApplying(t) ==
    /\ app = "commands"
    /\ pc[t] = "c_dispatch"
    /\ managed' = action_to_value(act[t]).payload
    /\ \E delivered \in BOOLEAN :
          /\ Emit(options.event_name, action_to_value(act[t]), cid[t],
                  delivered)
          /\ Return(t, IF delivered THEN Ok(Unit) ELSE Err("emit failed"))
    /\ UNCHANGED <<commands_fixed, overlapped, calls, op, cid, act, local, pa,
                   logged, history, polling_store>>

\* dispatch: app.emit("<package>:action", action).map_err(|e| e.to_string())
CommandDispatch(t) ==
    /\ app = "commands"
    /\ pc[t] = "c_dispatch"
    /\ \E delivered \in BOOLEAN :
          /\ Emit(options.event_name, action_to_value(act[t]), cid[t],
                  delivered)
          /\ Return(t, IF delivered THEN Ok(Unit) ELSE Err("emit failed"))
    /\ UNCHANGED <<commands_fixed, overlapped, calls, op, cid, act, local, pa,
                   logged, history, commands_store>>

\* ----------------------------------- the packages' Action through serde_json
\* the actions of the serialization tests, and more: payload None,
\* Some(number), Some(object), Some(string) and Some(null)
RoundTripActions ==
    { Action("INCREMENT", JCounter(JInt(1))),
      Action("RESET", None),
      Action("SET", JInt(1)),
      Action("", JStr("x")),
      Action("RESET", JNull) }

\* test_action_serialization on one of them
CallActionRoundTrip(t) ==
    /\ app = "commands"
    /\ \E a \in RoundTripActions :
          StartCall(t, "test_action_serialization", a, "c_serialize", Ok(Unit))
    /\ UNCHANGED <<commands_fixed, history, commands_store, events>>

\* let serialized = serde_json::to_string(&action).unwrap()
ActionSerialize(t) ==
    /\ app = "commands"
    /\ pc[t] = "c_serialize"
    /\ local' = [local EXCEPT ![t] = action_to_value(act[t])]
    /\ pc' = [pc EXCEPT ![t] = "c_deserialize"]
    /\ UNCHANGED <<commands_fixed, overlapped, calls, op, cid, act, pa, res,
                   logged, events, history, commands_store>>

\* let deserialized: Action = serde_json::from_str(&serialized).unwrap()
ActionDeserialize(t) ==
    /\ app = "commands"
    /\ pc[t] = "c_deserialize"
    /\ Return(t, Ok(action_from_value(local[t])))
    /\ UNCHANGED <<commands_fixed, overlapped, calls, op, cid, act, local, pa,
                   logged, events, history, commands_store>>

RoundTripNext ==
    \E t \in Threads :
        \/ CallActionRoundTrip(t)
        \/ ActionSerialize(t)
        \/ ActionDeserialize(t)

CommandsNext ==
    \E t \in Threads :
        \/ CallCommandGetState(t)
        \/ CommandGetState(t)
        \/ CallCommandSetState(t)
        \/ CommandSetState(t)
        \/ CallCommandDispatch(t)
        \/ CommandDispatch(t)

\* ============ apps/tauri/example-handlers and example-separate-handlers
\* The apps manage a Mutex<serde_json::Value>, register the commands of
\* zubridge-tauri, set up the tray and spawn the counter display thread.
\* Here a command holds the mutex from its lock() to the end of its block.

\* state["counter"].as_i64().unwrap_or(0): indexing a value that is no
\* object, or has no such key, gives null
counter_of(v) ==
    IF v.k = "obj" /\ as_i64_is_some(v.counter) THEN as_i32(v.counter) ELSE 0

\* create_tray_menu: the counter of the label "Counter: {}", read under
\* try_lock(); .unwrap_or(0) when another thread holds the mutex
create_tray_menu ==
    IF managed_holder = NoThread THEN counter_of(managed) ELSE 0

\* the menu items of the tray that change the counter
MenuItems == {[id |-> "increment"], [id |-> "decrement"]}

\* on_menu_event of setup_tray for "increment" | "decrement"
CallMenuEvent(t) ==
    /\ app = "commands"
    /\ \E item \in MenuItems :
          StartCall(t, "on_menu_event", item, "m_lock", Ok(Unit))
    /\ UNCHANGED <<commands_fixed, history, commands_store, events>>

\* state.lock() of get_state, of set_state and of on_menu_event: the thread
\* waits for the mutex and takes it
StateLock(t) ==
    /\ app = "commands"
    /\ pc[t] \in {"c_get", "c_set", "m_lock"}
    /\ managed_holder = NoThread
    /\ managed_holder' = t
    /\ pc' = [pc EXCEPT ![t] = CASE pc[t] = "c_get" -> "c_get_locked"
                                 [] pc[t] = "c_set" -> "c_set_locked"
                                 [] pc[t] = "m_lock" -> "m_update"]
    /\ UNCHANGED <<commands_fixed, overlapped, calls, op, cid, act, local, pa,
                   res, logged, events, history, managed, poller, last_state,
                   current, counter_value>>

\* get_state under its guard: guard.clone(), the guard dropped, Ok(state)
GetStateLocked(t) ==
    /\ app = "commands"
    /\ pc[t] = "c_get_locked"
    /\ managed_holder' = NoThread
    /\ Return(t, Ok(managed))
    /\ UNCHANGED <<commands_fixed, overlapped, calls, op, cid, act, local, pa,
                   logged, events, history, managed, poller, last_state,
                   current, counter_value>>

\* set_state under its guard: *guard = state, the guard dropped, Ok(())
SetStateLocked(t) ==
    /\ app = "commands"
    /\ pc[t] = "c_set_locked"
    /\ managed' = act[t]
    /\ managed_holder' = NoThread
    /\ Committed(t, act[t], act[t])
    /\ Return(t, Ok(Unit))
    /\ UNCHANGED <<commands_fixed, overlapped, calls, op, cid, act, local, pa,
                   logged, events, poller, last_state, current, counter_value>>

\* on_menu_event under its guard: new_state = {"counter": counter + 1} or
\* {"counter": counter - 1}, *state_guard = new_state, the guard dropped
MenuEventUpdate(t) ==
    /\ app = "commands"
    /\ pc[t] = "m_update"
    /\ LET counter == counter_of(managed)
           new_counter == IF act[t].id = "increment" THEN counter + 1
                          ELSE counter - 1
           new_state == JCounter(JInt(new_counter))
       IN  /\ managed' = new_state
           /\ local' = [local EXCEPT ![t] = new_state]
           /\ Committed(t, new_state, new_state)
    /\ managed_holder' = NoThread
    /\ pc' = [pc EXCEPT ![t] = "m_emit"]
    /\ UNCHANGED <<commands_fixed, overlapped, calls, op, cid, act, pa, res,
                   logged, events, poller, last_state, current, counter_value>>

\* let _ = app.emit("zubridge-tauri:state-update", new_state)
MenuEventEmit(t) ==
    /\ app = "commands"
    /\ pc[t] = "m_emit"
    /\ \E delivered \in BOOLEAN :
          Emit("zubridge-tauri:state-update", local[t], cid[t], delivered)
    /\ pc' = [pc EXCEPT ![t] = "m_menu"]
    /\ UNCHANGED <<commands_fixed, overlapped, calls, op, cid, act, local, pa,
                   res, logged, history, commands_store>>

\* tray.set_menu(Some(create_tray_menu(app)))
MenuEventSetMenu(t) ==
    /\ app = "commands"
    /\ pc[t] = "m_menu"
    /\ counter_value' = create_tray_menu
    /\ Return(t, Ok(Unit))
    /\ UNCHANGED <<commands_fixed, overlapped, calls, op, cid, act, local, pa,
                   logged, events, history, managed, managed_holder, poller,
                   last_state, current>>

\* what a step of the counter display thread leaves as it is
poller_fixed == <<commands_fixed, overlapped, calls, pc, op, cid, act, local,
                  pa, res, logged, events, history, managed, managed_holder>>

\* the counter display thread, loop body: try_lock(); under the guard
\* current = state.clone(); when last_state != current the guard is dropped
\* and the tray is to be updated.  The guard is dropped at the end of the
\* `if let` otherwise; when try_lock fails the body is skipped.
PollTryLock ==
    /\ app = "commands"
    /\ poller = "loop"
    /\ IF managed_holder = NoThread
       THEN /\ current' = managed
            /\ poller' = IF last_state # managed THEN "update" ELSE "sleep"
       ELSE /\ poller' = "sleep"
            /\ UNCHANGED current
    /\ UNCHANGED <<poller_fixed, last_state, counter_value>>

\* tray::update_tray_menu(&handle_for_thread, &current), which builds the
\* menu with create_tray_menu and ignores its argument; last_state = current
PollUpdateTray ==
    /\ app = "commands"
    /\ poller = "update"
    /\ counter_value' = create_tray_menu
    /\ last_state' = current
    /\ poller' = "sleep"
    /\ UNCHANGED <<poller_fixed, current>>

\* std::thread::sleep(Duration::from_millis(100)), and round the loop
PollSleep ==
    /\ app = "commands"
    /\ poller = "sleep"
    /\ poller' = "loop"
    /\ UNCHANGED <<poller_fixed, last_state, current, counter_value>>

\* the steps of the call of thread t
PollingCall(t) ==
    \/ StateLock(t)
    \/ GetStateLocked(t)
    \/ SetStateLocked(t)
    \/ MenuEventUpdate(t)
    \/ MenuEventEmit(t)
    \/ MenuEventSetMenu(t)

\* the steps of the counter display thread
PollingThread == PollTryLock \/ PollUpdateTray \/ PollSleep

PollingNext ==
    \/ \E t \in Threads :
          \/ CallCommandGetState(t)
          \/ CallCommandSetState(t)
          \/ CallMenuEvent(t)
          \/ PollingCall(t)
    \/ PollingThread

\* ====================================================== the specifications
InitThreads ==
    /\ calls = 0
    /\ pc = [t \in Threads |-> "idle"]
    /\ op = [t \in Threads |-> "none"]
    /\ cid = [t \in Threads |-> 0]
    /\ act = [t \in Threads |-> None]
    /\ local = [t \in Threads |-> JNull]
    /\ pa = [t \in Threads |-> Ok(Unit)]
    /\ res = [t \in Threads |-> Ok(Unit)]
    /\ logged = [t \in Threads |-> ""]
    /\ events = <<>>
    /\ overlapped = FALSE
    /\ commit_log = <<>>

\* the three stores as their programs construct them: MutexStateManager::new(
\* AppState::default(), app_reducer), AppStateManager::new(), and
\* AppState(Arc::new(Mutex::new(CounterState::default()))) with create_tray's
\* "Counter: 0", and the examples' app.manage(Mutex::new(json!({"counter":
\* 0})))
InitStores ==
    /\ inner = AppStateDefault
    /\ inner_holder = NoThread
    /\ inner_poisoned = FALSE
    /\ state_manager_holder = NoThread
    /\ state_manager_poisoned = FALSE
    /\ state = AppStateDefault
    /\ state_holder = NoThread
    /\ locked_state = CounterStateDefault
    /\ locked_state_holder = NoThread
    /\ tray_menu = 0
    /\ tray_builds = {}
    /\ managed = JCounter(JInt(0))
    /\ managed_holder = NoThread
    /\ poller = "loop"
    /\ last_state = JCounter(JInt(0))
    /\ current = JCounter(JInt(0))
    /\ counter_value = 0

InitCore ==
    /\ state_manager = NoManager
    /\ app = "core"
    /\ options \in CoreOptions
    /\ seq_state = AppStateDefault
    /\ seq_prefixes = {to_value(AppStateDefault)}

\* plugin(state_manager, options): setup manages the state manager
InitPlugin ==
    /\ state_manager = 1
    /\ app = "plugin"
    /\ options \in {PluginOptionsDefault, PluginOptions("app://state")}
    /\ seq_state = AppStateDefault
    /\ seq_prefixes = {to_value(AppStateDefault)}

InitV1 ==
    /\ state_manager = NoManager
    /\ app = "v1"
    /\ options = ZubridgeOptionsDefault
    /\ seq_state = CounterStateDefault
    /\ seq_prefixes = {counter_to_value(CounterStateDefault)}

InitCommands ==
    /\ state_manager = NoManager
    /\ app = "commands"
    /\ options \in CommandsOptions
    /\ seq_state = JCounter(JInt(0))
    /\ seq_prefixes = {JCounter(JInt(0))}

\* init(): setup manages the Zubridge of desktop::init alone
InitBare ==
    /\ state_manager = NoManager
    /\ app = "plugin"
    /\ options = PluginOptionsDefault
    /\ seq_state = AppStateDefault
    /\ seq_prefixes = {to_value(AppStateDefault)}

Init ==
    InitThreads /\ InitStores /\ (InitCore \/ InitPlugin \/ InitV1 \/ InitCommands)
Next == CoreNext \/ PluginNext \/ V1Next \/ CommandsNext
Spec == Init /\ [][Next]_vars

\* one program at a time
CoreInit == InitThreads /\ InitStores /\ InitCore
PluginInit == InitThreads /\ InitStores /\ InitPlugin
V1Init == InitThreads /\ InitStores /\ InitV1
CommandsInit == InitThreads /\ InitStores /\ InitCommands
SpecCore == CoreInit /\ [][CoreNext]_vars
SpecSetState == CoreInit /\ [][SetStateNext]_vars
SpecPlugin == PluginInit /\ [][PluginNext]_vars
SpecTrayClick == PluginInit /\ [][TrayClickNext]_vars
BareInit == InitThreads /\ InitStores /\ InitBare
SpecRegister == BareInit /\ [][RegisterNext]_vars
SpecV1 == V1Init /\ [][V1Next]_vars
SpecCommands == CommandsInit /\ [][CommandsNext]_vars
\* the polling apps register the commands of zubridge-tauri
PollingInit == CommandsInit /\ options.event_name = "zubridge-tauri:action"
SpecPolling == PollingInit /\ [][PollingNext]_vars
\* The counter display thread loops for ever, and a command or a menu event
\* that can take its next step takes it.
SpecPollingFair ==
    /\ SpecPolling
    /\ WF_vars(PollingThread)
    /\ \A t \in Threads : WF_vars(PollingCall(t))
\* replacing and reading the whole state: set_state and get_state of
\* backend-core's MutexStateManager and of the commands packages
ReplaceInit == InitThreads /\ InitStores /\ (InitCore \/ InitCommands)
ReplaceNext ==
    \E t \in Threads :
        \/ CallSetState(t)
        \/ SetState(t)
        \/ CallGetState(t)
        \/ GetState(t)
        \/ CallCommandSetState(t)
        \/ CommandSetState(t)
        \/ CallCommandGetState(t)
        \/ CommandGetState(t)
SpecReplace == ReplaceInit /\ [][ReplaceNext]_vars

\* backend-core behind the commands of register_commands
SpecRegistered == CoreInit /\ [][RegisteredNext]_vars

\* callers that dispatch one action after another, in backend-core and in
\* the plugin
CallersInit == InitThreads /\ InitStores /\ (InitCore \/ InitPlugin)
CallersNext ==
    \E t \in Threads :
        \/ CallDispatchInTurn(t)
        \/ ProcessActionLock(t)
        \/ ProcessActionReduce(t)
        \/ GetState(t)
        \/ HandlerEmit(t)
        \/ CallPluginDispatchInTurn(t)
        \/ PluginLock(t)
        \/ ManagerParse(t)
        \/ ManagerUpdate(t)
        \/ PluginEmit(t)
SpecCallers == CallersInit /\ [][CallersNext]_vars

\* callers that read the state between dispatches and replacements, in
\* backend-core, in the plugin and in the commands packages
\* (backend-core and the plugin with their default options)
ReadsInit ==
    /\ InitThreads
    /\ InitStores
    /\ (InitCore \/ InitPlugin \/ InitCommands)
    /\ app = "core" => options = ZubridgeOptionsDefault
    /\ app = "plugin" => options = PluginOptionsDefault
ReadsNext ==
    \E t \in Threads :
        \/ CallDispatchInTurn(t)
        \/ CallGetStateInTurn(t)
        \/ ProcessActionLock(t)
        \/ ProcessActionReduce(t)
        \/ GetState(t)
        \/ HandlerEmit(t)
        \/ CallPluginDispatchInTurn(t)
        \/ CallGetInitialStateInTurn(t)
        \/ PluginLock(t)
        \/ ManagerParse(t)
        \/ ManagerUpdate(t)
        \/ PluginEmit(t)
        \/ PluginGetInitialState(t)
        \/ CallCommandSetState(t)
        \/ CommandSetState(t)
        \/ CallCommandGetState(t)
        \/ CommandGetState(t)
SpecReads == ReadsInit /\ [][ReadsNext]_vars

\* tauri-example's AppStateManager under callers of its dispatch_action
SpecManager == PluginInit /\ [][ManagerNext]_vars

\* the plugin behind its registered dispatch command
SpecPluginCommands == PluginInit /\ [][PluginCommandsNext]_vars

\* the packages' Action serialized and read back
SpecRoundTrip == CommandsInit /\ [][RoundTripNext]_vars

\* the dispatches that emit a state update after their mutation: the
\* plugin's and tauri-v1-example's
EmittersInit == InitThreads /\ InitStores /\ (InitPlugin \/ InitV1)
EmittersNext ==
    \E t \in Threads :
        \/ CallPluginDispatch(t)
        \/ PluginLock(t)
        \/ ManagerParse(t)
        \/ ManagerRelock(t)
        \/ ManagerUpdate(t)
        \/ PluginEmit(t)
        \/ CallV1Dispatch(t)
        \/ V1Lock(t)
        \/ V1Handle(t)
        \/ V1Emit(t)
        \/ V1SetMenu(t)
SpecEmitters == EmittersInit /\ [][EmittersNext]_vars

\* tauri-v1-example with its tray
SpecTray == V1Init /\ [][TrayNext]_vars

\* backend-core with the counter at the ends of the i32 range
SpecLimits == CoreInit /\ [][LimitsNext]_vars

\* ================================================================ claims
EventsOf(c) == {i \in 1..Len(events) : events[i].call = c}

\* C1: MutexStateManager is atomic: at every instant the stored state is the
\* result of applying the successful process_action / set_state calls one
\* at a time in the order in which they took effect, and every get_state
\* returned the state after some prefix of that order.
C1_Atomicity ==
    app = "core" =>
        /\ inner = seq_state
        /\ \A t \in Threads :
              (pc[t] = "done" /\ op[t] = "get_state") =>
                  (res[t].ok /\ res[t].value \in seq_prefixes)

\* a get_state that overlapped a dispatch has returned the state the
\* dispatch left
C1_Witness ==
    /\ app = "core"
    /\ overlapped
    /\ \E t, u \in Threads :
          /\ pc[t] = "done" /\ op[t] = "dispatch" /\ pa[t].ok
          /\ pc[u] = "done" /\ op[u] = "get_state"
          /\ inner # AppStateDefault
          /\ res[u].value = to_value(inner)

\* C2: a process_action call that returns Err leaves the stored state as it
\* was immediately before the call.
C2_FailurePreservesState ==
    [][\A t \in Threads :
          ( /\ app = "core"
            /\ pc[t] = "pa_reduce" /\ pc'[t] # "pa_reduce"
            /\ ~pa'[t].ok ) =>
              (inner' = inner /\ to_value(inner') = to_value(inner))]_vars

\* a failed process_action has returned while the state was not the default
C2_Witness ==
    /\ app = "core"
    /\ \E t \in Threads :
          /\ pc[t] = "done" /\ op[t] = "dispatch" /\ ~pa[t].ok
          /\ act[t] = Action("SET_COUNTER", JStr("abc"))
          /\ inner.counter # 0

\* C3: in the plugin path no increment is lost: the stored state is the
\* dispatches that took effect applied one at a time (each COUNTER:INCREMENT
\* adds exactly one to the counter it finds), and n increment dispatches from
\* counter 0, one per thread, leave counter n once all have updated.
C3_NoLostIncrement ==
    app = "plugin" =>
        /\ state = seq_state
        /\ ( /\ calls = Cardinality({t \in Threads : cid[t] # 0})
             /\ \A t \in Threads :
                   cid[t] # 0 =>
                       /\ op[t] = "dispatch_action"
                       /\ act[t].type = "COUNTER:INCREMENT"
                       /\ pc[t] \in {"p_emit", "done"} )
           => state.counter = calls

\* two increment dispatches that overlapped have both responded, counter 2
C3_Witness ==
    /\ app = "plugin"
    /\ overlapped
    /\ \A t \in Threads :
          /\ pc[t] = "done"
          /\ op[t] = "dispatch_action"
          /\ act[t].type = "COUNTER:INCREMENT"
    /\ calls = NumThreads
    /\ state.counter = NumThreads

\* C4: every dispatch through the plugin reaches a response: no dispatch is
\* ever blocked on a mutex its own thread holds, and none unwinds in a panic
\* without answering.
C4_EveryDispatchResponds ==
    app = "plugin" =>
        \A t \in Threads : pc[t] \notin {"deadlocked", "panicked"}

\* C5: the step in which AppStateManager rejects an action answers with
\* {state: the stored state, success: false, error: a non-empty string} and
\* leaves the stored state as it was.
C5_RejectedResponse ==
    [][\A t \in Threads :
          ( /\ app = "plugin"
            /\ pc[t] = "p_update" /\ pc'[t] = "p_emit"
            /\ ~local[t].ok ) =>
              /\ pa'[t].k = "response"
              /\ pa'[t].state = to_value(state)
              /\ pa'[t].success = FALSE
              /\ pa'[t].error # ""
              /\ state' = state]_vars

\* an action was rejected while the counter was not 0
C5_Witness ==
    /\ app = "plugin"
    /\ \E t \in Threads :
          /\ pc[t] = "p_emit"
          /\ ~local[t].ok
          /\ state.counter # 0
          /\ pa[t] = error_response(state, "Failed to parse action")

\* C6: in the plugin path every state-update event comes from a dispatch that
\* mutated the state and carries the serialized state; no event carries the
\* response of a rejected action.
C6_OnlySuccessNotifies ==
    app = "plugin" =>
        \A i \in 1..Len(events) : events[i].payload.k = "obj"

\* C7: a dispatch whose process_action returned Err has returned that Err
\* and has emitted nothing, whatever auto_emit_updates is.
C7_ErrNoEmit ==
    app = "core" =>
        \A t \in Threads :
            (op[t] = "dispatch" /\ ~pa[t].ok) =>
                /\ pc[t] = "done"
                /\ res[t] = pa[t]
                /\ EventsOf(cid[t]) = {}

\* with auto_emit_updates set, one dispatch has failed and another has
\* emitted
C7_Witness ==
    /\ app = "core"
    /\ options.auto_emit_updates
    /\ events # <<>>
    /\ \E t \in Threads : pc[t] = "done" /\ op[t] = "dispatch" /\ ~pa[t].ok

\* C8: in tauri-v1-example a dispatch of an action type that no arm handles
\* is answered with an Err and emits nothing.
C8_UnknownTypeFails ==
    app = "v1" =>
        \A t \in Threads :
            (pc[t] = "done" /\ act[t].type = "BOGUS_ACTION") =>
                (~res[t].ok /\ EventsOf(cid[t]) = {})

\* C9: the step in which SET_COUNTER or ADD_TO_COUNTER finds its payload
\* missing or not an i32 returns an Err with a message, leaves the counter,
\* emits nothing, leaves the tray menu and releases the state lock.
C9_BadPayloadReturnsEarly ==
    [][\A t \in Threads :
          ( /\ app = "v1"
            /\ pc[t] = "v_handle" /\ pc'[t] # "v_handle"
            /\ ~pa'[t].ok ) =>
              /\ pc'[t] = "done"
              /\ ~res'[t].ok
              /\ res'[t].err # ""
              /\ locked_state' = locked_state
              /\ locked_state_holder' = NoThread
              /\ events' = events
              /\ tray_menu' = tray_menu
              /\ tray_builds' = tray_builds
              /\ EventsOf(cid[t]) = {}]_vars

\* a SET_COUNTER with a payload that is no i32 has returned its Err while
\* the counter was not 0
C9_Witness ==
    /\ app = "v1"
    /\ locked_state.counter # 0
    /\ \E t \in Threads :
          /\ pc[t] = "done"
          /\ act[t] = Action("SET_COUNTER", JFloat)
          /\ ~res[t].ok

\* C10: the step in which an emit fails after a successful mutation leaves
\* the stored state as the mutation left it, in the backend-core handler and
\* in the plugin: the state still is the calls that took effect, applied one
\* at a time.
C10_FailedEmitKeepsState ==
    [][\A t \in Threads :
          ( /\ pc[t] \in {"emit", "p_emit"}
            /\ pc'[t] = "done"
            /\ events' = events ) =>
              /\ inner' = inner
              /\ state' = state
              /\ app = "core" => inner' = seq_state'
              /\ app = "plugin" => state' = seq_state']_vars

\* the plugin has answered EmitError and the mutation is in the state
C10_Witness ==
    /\ app = "plugin"
    /\ \E t \in Threads :
          /\ pc[t] = "done"
          /\ res[t] = Err("EmitError")
          /\ pa[t] = to_value(state)
          /\ state # AppStateDefault

\* C11: in the plugin a dispatch whose mutation succeeded returns the updated
\* state as a success, whether or not the state-update event could be
\* emitted.
C11_EmitFailureOnlyLogged ==
    app = "plugin" =>
        \A t \in Threads :
            ( /\ pc[t] = "done"
              /\ op[t] = "dispatch_action"
              /\ pa[t] # Ok(Unit)
              /\ pa[t].k = "obj" ) =>
                res[t] = Ok(pa[t])

\* C12: the response of every finished dispatch, a success or a failure,
\* holds the serialized state, in backend-core, in the plugin and in
\* tauri-v1-example.
C12_ResponseHoldsState ==
    \A t \in Threads :
        ( /\ pc[t] = "done"
          /\ op[t] \in {"dispatch", "dispatch_action",
                        "__zubridge_dispatch_action"} ) =>
            \/ res[t].value.k = "obj"
            \/ /\ res[t].value.k = "response"
               /\ res[t].value.state.k = "obj"

\* C13: the state a backend-core dispatch reads for its notification is the
\* state its own action produced: the reducer applied to the state it
\* borrowed, also when other calls ran between its process_action and its
\* get_state.
C13_EventCarriesOwnCommit ==
    [][\A t \in Threads :
          ( /\ app = "core"
            /\ op[t] = "dispatch"
            /\ pc[t] = "gs_lock" /\ pc'[t] = "emit" ) =>
              local'[t] = to_value(app_reducer(local[t], act[t]).state)]_vars

\* C14: every set_state that succeeded has published a state-update event
\* carrying the new state, in backend-core and in the commands of
\* zubridge-tauri, zubridge-tauri-v1 and zuri.
C14_ReplaceNotifies ==
    \A t \in Threads :
        ( /\ pc[t] = "done"
          /\ op[t] = "set_state"
          /\ res[t].ok ) =>
            \E i \in 1..Len(events) :
                /\ events[i].call = cid[t]
                /\ events[i].payload =
                      IF app = "core" THEN to_value(from_value(act[t]))
                      ELSE act[t]

\* C15: a get_state issued right after a set_state(S) that succeeded, with
\* no other call in between, returns S: in backend-core for every S that
\* set_state accepts, in the commands packages for every JSON value.
C15_RoundTripReplace ==
    \A t, u \in Threads :
        ( /\ op[t] = "set_state" /\ pc[t] = "done" /\ res[t].ok
          /\ op[u] = "get_state" /\ pc[u] = "done"
          /\ cid[u] = cid[t] + 1
          /\ ~overlapped ) =>
            res[u] = Ok(act[t])

\* C15 as amended: the same get_state returns the serialization of the state
\* that S was deserialized to, which is S when S holds exactly the fields of
\* the state type; in the commands packages it returns S for every S.
C15_RoundTripExactShape ==
    \A t, u \in Threads :
        ( /\ op[t] = "set_state" /\ pc[t] = "done" /\ res[t].ok
          /\ op[u] = "get_state" /\ pc[u] = "done"
          /\ cid[u] = cid[t] + 1
          /\ ~overlapped ) =>
            /\ app = "core" => res[u] = Ok(to_value(from_value(act[t])))
            /\ app = "commands" => res[u] = Ok(act[t])
            /\ DOMAIN act[t] = DOMAIN to_value(AppStateDefault) =>
                  res[u] = Ok(act[t])

\* backend-core: set_state of an object with exactly the state's fields,
\* then get_state, nothing in between
C15_Witness ==
    /\ app = "core"
    /\ ~overlapped
    /\ \E t, u \in Threads :
          /\ op[t] = "set_state" /\ pc[t] = "done" /\ res[t].ok
          /\ act[t] = JObj(JInt(3), JBool(FALSE))
          /\ op[u] = "get_state" /\ pc[u] = "done"
          /\ cid[u] = cid[t] + 1
          /\ res[u] = Ok(act[t])

\* C16: the step in which MutexStateManager::set_state is called with a
\* value that does not deserialize into the state type returns
\* Err("Failed to deserialize state..") at once: it does not wait for or
\* take the state lock and leaves the stored state as it was.
C16_BadStateRejected ==
    [][\A t \in Threads :
          ( /\ app = "core"
            /\ cid'[t] # cid[t]
            /\ op'[t] = "set_state"
            /\ ~from_value_ok(act'[t]) ) =>
              /\ pc'[t] = "done"
              /\ res'[t] = Err("Failed to deserialize state")
              /\ inner' = inner
              /\ inner_holder' = inner_holder
              /\ seq_state' = seq_state]_vars

\* set_state(null) has returned its Err while another thread held the state
\* lock
C16_Witness ==
    /\ app = "core"
    /\ \E t \in Threads :
          /\ op[t] = "set_state" /\ pc[t] = "done"
          /\ act[t] = JNull
          /\ res[t] = Err("Failed to deserialize state")
          /\ inner_holder \notin {NoThread, t}

\* C17: every event the plugin emits is published under the event_name of
\* the options that were given to plugin(state_manager, options).
C17_EventNameFromOptions ==
    app = "plugin" =>
        \A i \in 1..Len(events) : events[i].name = options.event_name

\* C18: in backend-core the options decide only the event's name and
\* whether it is emitted.  Whatever the options, the stored state is the
\* committed actions applied in order by the reducer, every finished
\* dispatch returns what the reducer returned for it, every event carries
\* options.event_name, and with auto_emit_updates = false there is no event.
C18_OptionsOnlyWiring ==
    app = "core" =>
        /\ inner_holder = NoThread => inner = seq_state
        /\ \A t \in Threads :
              (pc[t] = "done" /\ op[t] = "dispatch") => res[t] = pa[t]
        /\ \A i \in 1..Len(events) : events[i].name = options.event_name
        /\ ~options.auto_emit_updates => events = <<>>

\* with auto_emit_updates = false one dispatch has changed the state and
\* another has been refused by the reducer
C18_Witness ==
    /\ app = "core"
    /\ ~options.auto_emit_updates
    /\ inner # AppStateDefault
    /\ \E t, u \in Threads :
          /\ pc[t] = "done" /\ op[t] = "dispatch" /\ res[t].ok
          /\ pc[u] = "done" /\ op[u] = "dispatch" /\ ~res[u].ok

\* C19: the stored state is the committed actions applied one at a time in
\* the order of the commit log, and in that order the calls of one caller
\* (a thread issues a call only after its previous call has responded) stand
\* in the order in which they were issued, whatever the other callers do.
C19_CallerOrderKept ==
    /\ (app = "core" /\ inner_holder = NoThread) => inner = seq_state
    /\ (app = "plugin" /\ state_manager_holder = NoThread) => state = seq_state
    /\ \A i, j \in 1..Len(commit_log) :
          (i < j /\ commit_log[i][1] = commit_log[j][1]) =>
              commit_log[i][2] < commit_log[j][2]

\* two actions of one caller took effect around an action of another caller
\* whose call overlapped one of them
C19_Witness ==
    /\ overlapped
    /\ Len(commit_log) = 3
    /\ commit_log[1][1] = commit_log[3][1]
    /\ commit_log[2][1] # commit_log[1][1]
    /\ \A t \in Threads : Idle(t)

\* C20: the step in which the registered dispatch command receives a
\* message that does not deserialize into ZubridgeAction returns an error
\* at once: the reducer is not invoked, the state lock is not taken, the
\* state is unchanged and no event is emitted.
C20_MalformedActionRejected ==
    [][\A t \in Threads :
          ( /\ app = "core"
            /\ cid'[t] # cid[t]
            /\ op'[t] = "dispatch_command"
            /\ "message" \in DOMAIN act'[t]
            /\ ~zubridge_action_ok(act'[t]) ) =>
              /\ pc'[t] = "done"
              /\ ~res'[t].ok
              /\ inner' = inner
              /\ inner_holder' = inner_holder
              /\ seq_state' = seq_state
              /\ events' = events]_vars

\* a message without "type" has been answered with an error after an earlier
\* dispatch had changed the state and emitted
C20_Witness ==
    /\ app = "core"
    /\ inner # AppStateDefault
    /\ events # <<>>
    /\ \E t \in Threads :
          /\ pc[t] = "done" /\ op[t] = "dispatch_command"
          /\ act[t] = RawMessage(JAbsent, JInt(1))
          /\ ~res[t].ok
          /\ EventsOf(cid[t]) = {}

\* C21: MutexStateManager::get_state never fails: after any sequence of
\* process_action calls, a reducer call that panicked under the lock
\* included, no get_state call has panicked.
C21_GetStateNeverFails ==
    app = "core" =>
        \A t \in Threads : ~(op[t] = "get_state" /\ pc[t] = "panicked")

\* the entry points that read the state
Reads == {"get_state", "get_initial_state"}

\* C22: reads are idempotent and mutate nothing.  The step in which
\* get_state (backend-core, the commands packages) or the plugin's
\* get_initial_state reads the state leaves the stored state as it was and
\* emits no event, and of two reads of which the second was issued right
\* after the first, with no other call in between, the second returned what
\* the first returned.
C22_ReadsIdempotent ==
    /\ [][\A t \in Threads :
            ( /\ op[t] \in Reads
              /\ pc[t] \in {"gs_lock", "gi_lock", "c_get"}
              /\ pc'[t] # pc[t] ) =>
                /\ inner' = inner
                /\ state' = state
                /\ managed' = managed
                /\ seq_state' = seq_state
                /\ events' = events]_vars
    /\ [](\A t, u \in Threads :
            ( /\ op[t] \in Reads /\ pc[t] = "done"
              /\ op[u] \in Reads /\ pc[u] = "done"
              /\ cid[u] = cid[t] + 1
              /\ ~overlapped ) =>
                res[u] = res[t])

\* backend-core: a dispatch has changed the state, then two get_state calls,
\* one right after the other, have returned that state
C22_Witness ==
    /\ app = "core"
    /\ ~overlapped
    /\ inner # AppStateDefault
    /\ \E t, u \in Threads :
          /\ op[t] = "get_state" /\ pc[t] = "done"
          /\ op[u] = "get_state" /\ pc[u] = "done"
          /\ cid[u] = cid[t] + 1
          /\ res[t] = Ok(to_value(inner))
          /\ res[u] = res[t]

\* C23: the step in which process_action returns Ok for a SET_COUNTER with
\* an integer payload n leaves counter equal to n, for every integer n, also
\* outside the i32 range.
C23_SetCounterKeepsPayload ==
    [][\A t \in Threads :
          ( /\ app = "core"
            /\ pc[t] = "pa_reduce" /\ pc'[t] # "pa_reduce"
            /\ act[t].type = "SET_COUNTER"
            /\ pa'[t].ok ) =>
              /\ act[t].payload.hi = 0
              /\ inner'.counter = act[t].payload.n]_vars

\* C24: AppStateManager rejects a COUNTER:SET whose payload is absent, null
\* or not an integer: no step of such a call writes the state, its parse
\* ends in an error, and it answers {state, success: false, error} with a
\* message.
C24_BadSetPayloadRejected ==
    [][\A t \in Threads :
          ( /\ app = "plugin"
            /\ op[t] = "manager_dispatch"
            /\ pc[t] \in {"p_lock", "p_parse", "p_update"}
            /\ pc'[t] # pc[t]
            /\ act[t].type = "COUNTER:SET"
            /\ act[t].payload.k # "int" ) =>
              /\ state' = state
              /\ pc[t] = "p_parse" =>
                    /\ pc'[t] = "p_update"
                    /\ ~local'[t].ok
              /\ pc[t] = "p_update" =>
                    /\ pc'[t] = "done"
                    /\ res'[t] = Ok(error_response(state, local[t].err))
                    /\ local[t].err # ""]_vars

\* the entry points that dispatch an action or replace the state
Writers ==
    {"dispatch", "dispatch_command", "dispatch_action", "manager_dispatch",
     "__zubridge_dispatch_action", "set_state"}

\* C25: the state changes only through a dispatch or a replace-state call:
\* every step in which a stored state changes is a step of a call that
\* entered through a dispatch entry point or through set_state.
C25_OnlyDispatchWrites ==
    [][( \/ inner' # inner
         \/ state' # state
         \/ locked_state' # locked_state
         \/ managed' # managed ) =>
           \E t \in Threads :
               /\ pc'[t] # pc[t]
               /\ op[t] \in Writers]_vars

\* C26: the plugin's dispatch-action command accepts { type: string,
\* payload?: any }: the step that deserializes an argument with a string
\* "type" yields a ZubridgeAction whose action_type is that string, and the
\* JSON built for the state manager carries the same type and payload.
C26_WireShapeAccepted ==
    [][\A t \in Threads :
          ( /\ app = "plugin"
            /\ pc[t] = "p_args" /\ pc'[t] # "p_args"
            /\ act[t].type.k = "str" ) =>
              /\ pc'[t] = "p_lock"
              /\ act'[t].type = act[t].type.s
              /\ action_json(act'[t]).type = act[t].type.s
              /\ action_json(act'[t]).payload =
                    IF act[t].payload = JAbsent THEN JNull
                    ELSE act[t].payload]_vars

C28_ActionRoundTrip ==
    \A t \in Threads :
        (op[t] = "test_action_serialization" /\ pc[t] = "done") =>
            /\ local[t].type = act[t].type
            /\ act[t].payload = None => local[t].payload = JNull
            /\ res[t].value.type = act[t].type
            /\ res[t].value.payload = act[t].payload

\* C28 as amended: the same, except that the payload Some(null) is read
\* back as None.
C28_ActionRoundTripButNull ==
    \A t \in Threads :
        (op[t] = "test_action_serialization" /\ pc[t] = "done") =>
            /\ local[t].type = act[t].type
            /\ act[t].payload = None => local[t].payload = JNull
            /\ res[t].value.type = act[t].type
            /\ res[t].value.payload =
                  IF act[t].payload = JNull THEN None ELSE act[t].payload

\* the two actions of the package's tests have been through the round trip
C28_Witness ==
    \E t, u \in Threads :
        /\ op[t] = "test_action_serialization" /\ pc[t] = "done"
        /\ act[t] = Action("INCREMENT", JCounter(JInt(1)))
        /\ res[t] = Ok(act[t])
        /\ op[u] = "test_action_serialization" /\ pc[u] = "done"
        /\ act[u] = Action("RESET", None)
        /\ local[u] = [k |-> "action", type |-> "RESET", payload |-> JNull]
        /\ res[u] = Ok(act[u])

\* C29: a dispatching thread holds no state lock at the moment it emits:
\* in the plugin the thread about to emit holds neither the managed mutex
\* nor the manager's state mutex, in tauri-v1-example it does not hold the
\* state mutex.
C29_NoLockAtEmit ==
    \A t \in Threads :
        /\ pc[t] = "p_emit" =>
              (state_manager_holder # t /\ state_holder # t)
        /\ pc[t] = "v_emit" => locked_state_holder # t

\* a plugin dispatch is about to emit its update while another dispatch
\* holds the managed mutex
C29_Witness ==
    /\ app = "plugin"
    /\ \E t, u \in Threads :
          /\ t # u
          /\ pc[t] = "p_emit"
          /\ pa[t] = to_value(state)
          /\ state # AppStateDefault
          /\ state_manager_holder = u

\* C30: notifications are published in commit order: once all dispatches
\* have responded, each having committed and each event having been
\* delivered, the payload of the last state-update event is the final
\* stored state.
C30_LastEventIsFinalState ==
    ( /\ \A t \in Threads : Idle(t)
      /\ calls > 0
      /\ Len(commit_log) = calls
      /\ Len(events) = calls ) =>
        events[Len(events)].payload =
            CASE app = "core" -> to_value(inner)
              [] app = "plugin" -> to_value(state)
              [] app = "v1" -> counter_to_value(locked_state)
              [] OTHER -> events[Len(events)].payload

\* what a call adds to the counter once it has applied: a tray click on
\* increment or decrement, a dispatched INCREMENT_COUNTER
C31_Delta(t) ==
    IF cid[t] = 0 THEN 0
    ELSE IF op[t] = "handle_tray_event"
    THEN (IF act[t].id = "increment" THEN 1 ELSE -1)
    ELSE 1

\* the sum of what the calls of the threads in S add
RECURSIVE C31_Sum(_)
C31_Sum(S) ==
    IF S = {} THEN 0
    ELSE LET t == CHOOSE t \in S : TRUE
         IN  C31_Delta(t) + C31_Sum(S \ {t})

\* C31: in tauri-v1-example tray clicks and dispatches lose no update: the
\* stored counter is the updates that took effect applied one at a time,
\* and once k increment clicks, j decrement clicks and m INCREMENT_COUNTER
\* dispatches, one per thread, have all applied from counter 0, the counter
\* is k - j + m.
C31_NoLostTrayUpdate ==
    app = "v1" =>
        /\ locked_state = seq_state
        /\ ( /\ calls = Cardinality({t \in Threads : cid[t] # 0})
             /\ \A t \in Threads :
                   cid[t] # 0 =>
                       \/ /\ op[t] = "handle_tray_event"
                          /\ act[t].id \in {"increment", "decrement"}
                          /\ pc[t] \in {"t_read", "t_emit", "done"}
                       \/ /\ op[t] = "__zubridge_dispatch_action"
                          /\ act[t].type = "INCREMENT_COUNTER"
                          /\ pc[t] \in {"v_emit", "v_tray", "done"} )
           => locked_state.counter = C31_Sum(Threads)

\* a tray click on increment and a dispatched INCREMENT_COUNTER overlapped
\* and both have finished: the counter is 2
C31_Witness ==
    /\ app = "v1"
    /\ overlapped
    /\ locked_state.counter = 2
    /\ \E t, u \in Threads :
          /\ pc[t] = "done" /\ op[t] = "handle_tray_event"
          /\ act[t].id = "increment"
          /\ pc[u] = "done" /\ op[u] = "__zubridge_dispatch_action"
          /\ act[u].type = "INCREMENT_COUNTER"

\* C32: in tauri-example a click on the tray item "Reset Counter" leaves the
\* stored counter 0, and the state-update event of the click carries a state
\* with counter 0 (as the payload or inside it), whatever the counter was.
C32_ResetClickZeroes ==
    [][\A t \in Threads :
          (op[t] = "handle_tray_item_click" /\ act[t] = tray_action("reset_counter")) =>
             /\ (pc[t] = "p_update" /\ pc'[t] # "p_update") =>
                   state'.counter = 0
             /\ (pc[t] = "p_emit" /\ pc'[t] = "done" /\ res'[t].ok) =>
                   \E i \in DOMAIN events' :
                      /\ events'[i].call = cid[t]
                      /\ \/ /\ events'[i].payload.k = "obj"
                            /\ events'[i].payload.counter = JInt(0)
                         \/ /\ events'[i].payload.k = "response"
                            /\ events'[i].payload.state.counter = JInt(0)
      ]_vars
\* C33: in the polling apps the tray mirrors the state eventually: once the
\* state has stopped changing, the tray menu label comes to show the
\* counter of the state and keeps showing it, in every interleaving of the
\* counter display thread with get_state, set_state and the tray's clicks.
C33_TrayMirrorsState == <>[](counter_value = counter_of(managed))
\* C34: with the plugin initialised by init() and no state manager
\* registered, get_initial_state and dispatch_action both return the
\* StateError "StateManager not found in app state", and dispatch_action
\* emits no event: the step that finds no manager returns that error and
\* leaves the events as they are, and no event is of such a call.
C34_NoManagerIsStateError ==
    /\ [][\A t \in Threads :
            ( /\ state_manager = NoManager
              /\ pc[t] \in {"p_lock", "gi_lock"}
              /\ pc'[t] # pc[t] ) =>
                 /\ pc'[t] = "done"
                 /\ res'[t] = Err("StateError: StateManager not found in app state")
                 /\ events' = events
                 /\ state' = state
       ]_vars
    /\ [](\A t \in Threads :
            (pc[t] = "done" /\ op[t] \in {"dispatch_action", "get_initial_state"}) =>
               \/ res[t] # Err("StateError: StateManager not found in app state")
               \/ \A i \in DOMAIN events : events[i].call # cid[t])

\* both calls have found no state manager, and nothing was emitted
C34_Witness ==
    /\ app = "plugin"
    /\ state_manager = NoManager
    /\ events = <<>>
    /\ \E t, u \in Threads :
          /\ op[t] = "dispatch_action" /\ pc[t] = "done"
          /\ op[u] = "get_initial_state" /\ pc[u] = "done"
          /\ res[t] = Err("StateError: StateManager not found in app state")
          /\ res[u] = res[t]
\* C35: after register_state_manager(S) has returned Ok, every later
\* get_initial_state and dispatch_action operates on S, also when another
\* state manager was registered before: the state manager the app manages
\* is S when the call returns Ok, and it changes with such a return only.
C35_RegisteredManagerIsUsed ==
    /\ [][\A t \in Threads :
            (pc[t] = "r_manage" /\ pc'[t] = "done" /\ res'[t].ok) =>
               state_manager' = act[t].id
       ]_vars
    /\ [][state_manager' # state_manager =>
            \E t \in Threads : pc[t] = "r_manage" /\ pc'[t] = "done"
       ]_vars
\* the value P a SET_STATE action carries: null for no payload
C36_Payload(a) == IF a.payload = None THEN JNull ELSE a.payload

\* C36: in backend-core, dispatching SET_STATE with payload P through
\* app_reducer is equivalent to set_state(P): each of the two succeeds
\* exactly when P deserializes, leaves the state P deserialized when it
\* succeeds and leaves it unchanged when it fails; and a dispatch and a
\* set_state of the same P have both succeeded or both failed.
C36_SetStateActionIsSetState ==
    /\ [][\A t \in Threads :
            /\ ( /\ pc[t] = "pa_reduce"
                 /\ pc'[t] # "pa_reduce"
                 /\ act[t].type = "SET_STATE" ) =>
                   LET P == C36_Payload(act[t])
                   IN  IF from_value_ok(P)
                       THEN pa'[t].ok /\ inner' = from_value(P)
                       ELSE ~pa'[t].ok /\ inner' = inner
            /\ ( /\ op'[t] = "set_state"
                 /\ pc'[t] = "done"
                 /\ (cid'[t] # cid[t] \/ pc[t] = "ss_lock") ) =>
                   LET P == act'[t]
                   IN  IF from_value_ok(P)
                       THEN res'[t].ok /\ inner' = from_value(P)
                       ELSE ~res'[t].ok /\ inner' = inner
       ]_vars
    /\ [](\A t, u \in Threads :
            ( /\ pc[t] = "done" /\ op[t] = "dispatch"
              /\ pc[u] = "done" /\ op[u] = "set_state"
              /\ act[t].type = "SET_STATE"
              /\ C36_Payload(act[t]) = act[u] ) =>
                 pa[t].ok = res[u].ok)

\* a dispatch of SET_STATE and a set_state of the same value have both
\* succeeded, and the state is the value deserialized
C36_Witness ==
    /\ app = "core"
    /\ \E t, u \in Threads :
          /\ pc[t] = "done" /\ op[t] = "dispatch"
          /\ pc[u] = "done" /\ op[u] = "set_state"
          /\ act[t] = Action("SET_STATE", act[u])
          /\ pa[t].ok /\ res[u].ok
          /\ inner = from_value(act[u])
          /\ inner # AppStateDefault
====
